---- MODULE Spec2Model ----
(***************************************************************************)
(* Model of mcp-jp-fts (src/src/mcp_jp_fts/server.py): the incremental     *)
(* directory scan, the single-file update, delete_index and path           *)
(* validation, over a small file tree and the two SQLite relations         *)
(* documents_fts and documents_meta.                                       *)
(*                                                                         *)
(* Strings are sequences of one-character strings, so that prefix tests,   *)
(* path normalisation and SQL LIKE are computed character by character.    *)
(***************************************************************************)
EXTENDS Integers, Sequences, FiniteSets, Bags, TLC

\* ------------------------------------------------------------------------
\* Bounds of the model
\* ------------------------------------------------------------------------
\* At most MaxCalls tool calls (index_directory, update_file, delete_index)
\* are made.
MaxCalls == 3
\* The environment changes the file tree at most MaxFsOps times.
MaxFsOps == 2

\* ------------------------------------------------------------------------
\* Path strings
\* ------------------------------------------------------------------------
Sep == "/"

\* os.getcwd()
Cwd == <<"/", "w">>

DirA  == <<"/", "w", "/", "a">>
DirAB == <<"/", "w", "/", "a", "b">>
DirUp == <<"/", "w", "/", "A">>
DirWc == <<"/", "w", "/", "_">>

FileX == <<"/", "w", "/", "a", "/", "x">>
FileH == <<"/", "w", "/", "a", "/", ".", "h">>
FileS == <<"/", "w", "/", "a", "b", "/", "x">>

\* an absolute path outside the working directory, a relative path that
\* escapes it, and a relative path inside it
PathOutside == <<"/", "e">>
PathEscape  == <<".", ".", "/", "o">>
PathRelX    == <<"a", "/", "x">>

\* the regular files the tree may hold
Files == {FileX, FileH, FileS}

EndsWith(s, p) ==
  /\ Len(p) <= Len(s)
  /\ SubSeq(s, Len(s) - Len(p) + 1, Len(s)) = p

\* str.split("/") without the empty components
RECURSIVE SplitFrom(_, _, _, _)
SplitFrom(s, i, cur, acc) ==
  IF i > Len(s)
  THEN IF cur = <<>> THEN acc ELSE Append(acc, cur)
  ELSE IF s[i] = Sep
       THEN SplitFrom(s, i + 1, <<>>, IF cur = <<>> THEN acc ELSE Append(acc, cur))
       ELSE SplitFrom(s, i + 1, Append(cur, s[i]), acc)

Split(s) == SplitFrom(s, 1, <<>>, <<>>)

RECURSIVE JoinSegs(_)
JoinSegs(segs) ==
  IF segs = <<>> THEN <<>>
  ELSE <<Sep>> \o Head(segs) \o JoinSegs(Tail(segs))

\* an absolute path from its components ("/" when there are none)
AbsFromSegs(segs) == IF segs = <<>> THEN <<Sep>> ELSE JoinSegs(segs)

\* os.path.normpath on the components of an absolute path: "." is dropped,
\* ".." removes the component before it and is dropped at the root
RECURSIVE NormSegs(_, _)
NormSegs(segs, acc) ==
  IF segs = <<>> THEN acc
  ELSE LET h == Head(segs) IN
       IF h = <<".">> THEN NormSegs(Tail(segs), acc)
       ELSE IF h = <<".", ".">>
            THEN NormSegs(Tail(segs),
                          IF acc = <<>> THEN acc ELSE SubSeq(acc, 1, Len(acc) - 1))
            ELSE NormSegs(Tail(segs), Append(acc, h))

IsAbs(p) == Len(p) > 0 /\ p[1] = Sep

\* os.path.abspath(path) = normpath(join(getcwd(), path))
Abspath(p) ==
  IF IsAbs(p)
  THEN AbsFromSegs(NormSegs(Split(p), <<>>))
  ELSE AbsFromSegs(NormSegs(Split(Cwd) \o Split(p), <<>>))

RECURSIVE CommonPrefix(_, _)
CommonPrefix(a, b) ==
  IF a = <<>> \/ b = <<>> \/ Head(a) # Head(b) THEN <<>>
  ELSE <<Head(a)>> \o CommonPrefix(Tail(a), Tail(b))

\* os.path.commonpath([a, b]) for two absolute paths
Commonpath(a, b) == AbsFromSegs(CommonPrefix(Split(a), Split(b)))

\* validate_path: the absolute path, or ValueError when the path lies
\* outside the working directory
validate_path(path) ==
  LET abs_path == Abspath(path) IN
  IF Commonpath(Cwd, abs_path) # Cwd
  THEN [raised |-> TRUE,  value |-> <<>>]
  ELSE [raised |-> FALSE, value |-> abs_path]

\* os.path.basename
Basename(p) == LET segs == Split(p) IN IF segs = <<>> THEN <<>> ELSE segs[Len(segs)]

\* p is root or lies below root in the directory tree
UnderRoot(root, p) ==
  LET r == Split(root)
      q == Split(p)
  IN  Len(r) <= Len(q) /\ SubSeq(q, 1, Len(r)) = r

\* ------------------------------------------------------------------------
\* SQL LIKE as SQLite evaluates it (no ESCAPE clause)
\* ------------------------------------------------------------------------
\* LIKE folds ASCII letters to one case before comparing
Lower(c) == IF c = "A" THEN "a" ELSE IF c = "B" THEN "b" ELSE c

\* s LIKE pat: "%" matches any run of characters, "_" any one character
RECURSIVE Like(_, _)
Like(s, pat) ==
  IF pat = <<>> THEN s = <<>>
  ELSE IF Head(pat) = "%"
       THEN \E k \in 0..Len(s) : Like(SubSeq(s, k + 1, Len(s)), Tail(pat))
       ELSE /\ s # <<>>
            /\ (Head(pat) = "_" \/ Lower(Head(pat)) = Lower(Head(s)))
            /\ Like(Tail(s), Tail(pat))

\* root_path if root_path.endswith(os.sep) else root_path + os.sep, then "%"
SearchPattern(root_path) ==
  (IF EndsWith(root_path, <<Sep>>) THEN root_path ELSE root_path \o <<Sep>>) \o <<"%">>

\* WHERE path = ? OR path LIKE ?   with (root_path, search_pattern)
RootPredicate(root_path, path) ==
  path = root_path \/ Like(path, SearchPattern(root_path))

\* ------------------------------------------------------------------------
\* File data, decoding, tokenizing, offset packing
\* ------------------------------------------------------------------------
\* A file's data is a sequence of encoded characters: "JA" is a character of
\* three UTF-8 bytes, "xFF" a byte that is not valid UTF-8, the others are
\* one-byte ASCII characters.

\* every character counts as one byte
Utf8Len_Chars(c) == 1

\* len(c.encode("utf-8"))
Utf8Len(c) == IF c = "JA" THEN 3 ELSE 1

RECURSIVE Utf8LenSeq(_)
Utf8LenSeq(t) == IF t = <<>> THEN 0 ELSE Utf8Len(Head(t)) + Utf8LenSeq(Tail(t))

\* open(path, "r", encoding="utf-8").read() raises UnicodeDecodeError
Decodable(data) == \A i \in 1..Len(data) : data[i] # "xFF"

\* text mode reads with universal newlines: CR LF and a lone CR become LF
RECURSIVE ReadText(_)
ReadText(data) ==
  IF data = <<>> THEN <<>>
  ELSE IF Head(data) = "CR"
       THEN IF Len(data) >= 2 /\ data[2] = "LF"
            THEN <<"LF">> \o ReadText(SubSeq(data, 3, Len(data)))
            ELSE <<"LF">> \o ReadText(Tail(data))
       ELSE <<Head(data)>> \o ReadText(Tail(data))

IsLetter(c) == c \in {"a", "b"}

\* tokenizer_obj.tokenize(text, mode): the morphemes cover the text left to
\* right; a run of ASCII letters is one morpheme, every other character
\* (blank, newline, kana) is a morpheme of its own.  Each morpheme is
\* [surface, begin, end] with character positions counted from 0.
RECURSIVE MorphemesFrom(_, _, _)
MorphemesFrom(text, i, acc) ==
  IF i > Len(text) THEN acc
  ELSE IF /\ acc # <<>>
          /\ IsLetter(text[i])
          /\ IsLetter(text[i - 1])
       THEN LET last == acc[Len(acc)] IN
            MorphemesFrom(text, i + 1,
              [acc EXCEPT ![Len(acc)] =
                 [surface |-> Append(last.surface, text[i]),
                  begin   |-> last.begin,
                  end     |-> last.end + 1]])
       ELSE MorphemesFrom(text, i + 1,
              Append(acc, [surface |-> <<text[i]>>, begin |-> i - 1, end |-> i]))

Morphemes(text) == MorphemesFrom(text, 1, <<>>)

\* the loop without the bytes of the text skipped before a token
RECURSIVE TokenizeLoop_NoSkipped(_, _, _, _, _)
TokenizeLoop_NoSkipped(text, ms, current_byte_offset, current_char_offset, results) ==
  IF ms = <<>> THEN results
  ELSE LET m == Head(ms)
       IN  TokenizeLoop_NoSkipped(text, Tail(ms),
                                  current_byte_offset + Utf8LenSeq(m.surface),
                                  m.end,
                                  Append(results, <<m.surface, current_byte_offset>>))

\* the loop of tokenize(): (surface, byte offset) pairs
RECURSIVE TokenizeLoop(_, _, _, _, _)
TokenizeLoop(text, ms, current_byte_offset, current_char_offset, results) ==
  IF ms = <<>> THEN results
  ELSE LET m            == Head(ms)
           skipped_text == SubSeq(text, current_char_offset + 1, m.begin)
           off          == current_byte_offset + Utf8LenSeq(skipped_text)
       IN  TokenizeLoop(text, Tail(ms),
                        off + Utf8LenSeq(m.surface),
                        m.end,
                        Append(results, <<m.surface, off>>))

tokenize(text) == TokenizeLoop(text, Morphemes(text), 0, 0, <<>>)

\* " ".join(token_surfaces)
RECURSIVE JoinSurfaces(_)
JoinSurfaces(token_data) ==
  IF token_data = <<>> THEN <<>>
  ELSE IF Len(token_data) = 1 THEN token_data[1][1]
       ELSE token_data[1][1] \o <<" ">> \o JoinSurfaces(Tail(token_data))

\* struct.pack(">I", n)
PackU32_BigEndian(n) ==
  <<(n \div 16777216) % 256, (n \div 65536) % 256, (n \div 256) % 256, n % 256>>

\* struct.pack("<I", n)
PackU32(n) ==
  <<n % 256, (n \div 256) % 256, (n \div 65536) % 256, (n \div 16777216) % 256>>

\* struct.pack(f"<{len(token_offsets)}I", *token_offsets)
RECURSIVE PackOffsets(_)
PackOffsets(token_data) ==
  IF token_data = <<>> THEN <<>>
  ELSE PackU32(token_data[1][2]) \o PackOffsets(Tail(token_data))

\* the file contents the environment writes
TextA   == <<"a">>
TextJ   == <<"JA", " ", "b">>
DataBin == <<"xFF">>

\* the versions (data, modification time) the environment gives a file:
\* FileX is rewritten with a later mtime, or with the same mtime (a write
\* inside the timestamp granularity, or a restored timestamp)
Version(data, mtime) == [exists |-> TRUE, data |-> data, mtime |-> mtime]

VersionsOf(f) ==
  IF f = FileX
  THEN {Version(TextA, 1), Version(TextJ, 2), Version(DataBin, 1), Version(DataBin, 2)}
  ELSE {Version(TextA, 1)}

\* ------------------------------------------------------------------------
\* Strings and bytes as search_documents handles them
\* ------------------------------------------------------------------------
\* str.find(sub): the index (from 0) of the first occurrence, or -1
Find(str, sub) ==
  LET at == {i \in 1..(Len(str) - Len(sub) + 1) :
               SubSeq(str, i, i + Len(sub) - 1) = sub}
  IN  IF at = {} THEN -1 ELSE (CHOOSE i \in at : \A j \in at : i <= j) - 1

\* str.count(ch) for a one-character ch
RECURSIVE Count(_, _)
Count(str, ch) ==
  IF str = <<>> THEN 0
  ELSE (IF Head(str) = ch THEN 1 ELSE 0) + Count(Tail(str), ch)

\* str.replace(old, new): every occurrence, left to right, not overlapping
RECURSIVE Replace(_, _, _)
Replace(str, old, new) ==
  IF Len(str) < Len(old) \/ old = <<>> THEN str
  ELSE IF SubSeq(str, 1, Len(old)) = old
       THEN new \o Replace(SubSeq(str, Len(old) + 1, Len(str)), old, new)
       ELSE <<Head(str)>> \o Replace(Tail(str), old, new)

\* html.escape(s) with quote=True
EscapeChar(c) ==
  IF c = "&" THEN <<"&", "a", "m", "p", ";">>
  ELSE IF c = "<" THEN <<"&", "l", "t", ";">>
  ELSE IF c = ">" THEN <<"&", "g", "t", ";">>
  ELSE IF c = "\"" THEN <<"&", "q", "u", "o", "t", ";">>
  ELSE IF c = "'" THEN <<"&", "#", "x", "2", "7", ";">>
  ELSE <<c>>

\* no character is replaced
RECURSIVE html_escape_Nothing(_)
html_escape_Nothing(str) ==
  IF str = <<>> THEN <<>> ELSE <<Head(str)>> \o html_escape_Nothing(Tail(str))

RECURSIVE html_escape(_)
html_escape(str) ==
  IF str = <<>> THEN <<>> ELSE EscapeChar(Head(str)) \o html_escape(Tail(str))

\* the placeholders given to snippet() and highlight(), and the markup that
\* replaces them
MatchOpen  == <<"{", "{", "{", "M", "A", "T", "C", "H", "}", "}", "}">>
MatchClose == <<"{", "{", "{", "/", "M", "A", "T", "C", "H", "}", "}", "}">>
BoldOpen   == <<"<", "b", ">">>
BoldClose  == <<"<", "/", "b", ">">>

\* the bytes of a file: a kana character is three bytes, none of them 0x0A
RECURSIVE BytesOf(_)
BytesOf(data) ==
  IF data = <<>> THEN <<>>
  ELSE (IF Head(data) = "JA" THEN <<"JA1", "JA2", "JA3">> ELSE <<Head(data)>>)
       \o BytesOf(Tail(data))

\* SQL NULL and Python None in place of an offset blob: the token_locations
\* of a metadata row written before the column existed, and the blob of a
\* path without a metadata row
Null == <<-1>>

\* struct.unpack_from("<I", blob, offset)[0]
unpack_from(blob, offset) ==
  blob[offset + 1] + 256 * blob[offset + 2] + 65536 * blob[offset + 3]
    + 16777216 * blob[offset + 4]

\* No offset: the index is not below len(token_locations_blob) // 4
NoOffset == <<>>

\* count = len(token_locations_blob) // 4; if token_index < count:
\* struct.unpack_from("<I", token_locations_blob, offset=token_index*4)[0]
DecodeOffset(blob, token_index) ==
  LET count == Len(blob) \div 4 IN
  IF token_index < count THEN <<unpack_from(blob, token_index * 4)>> ELSE NoOffset

\* ---- FTS5 with tokenize='unicode61' ----
\* unicode61 takes letters and digits as token characters and folds case;
\* blanks, newlines and punctuation separate tokens
IsTokenChar(c) == IsLetter(c) \/ c \in {"A", "B", "JA"}

\* the tokens of a column value: [term, begin, end], positions from 0
RECURSIVE FtsTokensFrom(_, _, _)
FtsTokensFrom(text, i, acc) ==
  IF i > Len(text) THEN acc
  ELSE IF ~IsTokenChar(text[i]) THEN FtsTokensFrom(text, i + 1, acc)
       ELSE IF acc # <<>> /\ acc[Len(acc)].end = i - 1
            THEN FtsTokensFrom(text, i + 1,
                   [acc EXCEPT ![Len(acc)] =
                      [term  |-> Append(@.term, Lower(text[i])),
                       begin |-> @.begin,
                       end   |-> i]])
            ELSE FtsTokensFrom(text, i + 1,
                   Append(acc, [term |-> <<Lower(text[i])>>, begin |-> i - 1, end |-> i]))

FtsTokens(text) == FtsTokensFrom(text, 1, <<>>)

FtsTerms(text) ==
  LET toks == FtsTokens(text) IN [i \in 1..Len(toks) |-> toks[i].term]

\* the string literals of a MATCH expression made of double-quoted strings
\* separated by blanks; inside a literal "" stands for one quote
RECURSIVE ParsePhrases(_, _, _, _)
ParsePhrases(expr, i, cur, acc) ==
  \* cur is <<>> outside a literal and <<"lit", chars>> inside one
  IF i > Len(expr) THEN acc
  ELSE IF cur = <<>>
       THEN IF expr[i] = "\"" THEN ParsePhrases(expr, i + 1, <<"lit", <<>>>>, acc)
            ELSE ParsePhrases(expr, i + 1, cur, acc)
       ELSE IF expr[i] = "\""
            THEN IF i < Len(expr) /\ expr[i + 1] = "\""
                 THEN ParsePhrases(expr, i + 2, <<"lit", Append(cur[2], "\"")>>, acc)
                 ELSE ParsePhrases(expr, i + 1, <<>>, Append(acc, cur[2]))
            ELSE ParsePhrases(expr, i + 1, <<"lit", Append(cur[2], expr[i])>>, acc)

\* the phrases of the expression, each as its sequence of terms; a literal
\* without a token character is a phrase without terms
QueryPhrases(expr) ==
  LET lits == ParsePhrases(expr, 1, <<>>, <<>>)
  IN  [i \in 1..Len(lits) |-> FtsTerms(lits[i])]

\* the phrase occurs in the terms at position k (from 1)
PhraseAt(terms, phrase, k) ==
  /\ phrase # <<>>
  /\ k + Len(phrase) - 1 <= Len(terms)
  /\ SubSeq(terms, k, k + Len(phrase) - 1) = phrase

\* tokens MATCH expr: phrases without terms are dropped from the implicit
\* AND; an expression with no phrase left matches no row
Matches(tokens_column, expr) ==
  LET terms   == FtsTerms(tokens_column)
      qp      == QueryPhrases(expr)
      phrases == {qp[i] : i \in 1..Len(qp)} \ {<<>>}
  IN  /\ phrases # {}
      /\ \A ph \in phrases : \E k \in 1..Len(terms) : PhraseAt(terms, ph, k)

\* highlight(documents_fts, 2, open, close): the column value with every
\* phrase instance wrapped in the two markers.  Every phrase of a query is
\* one morpheme surface and so one term: an instance is one token.
RECURSIVE HighlightFrom(_, _, _, _, _)
HighlightFrom(text, toks, covered, i, pos) ==
  \* toks: the tokens of text, covered: the indices of the tokens that are
  \* phrase instances, i: the next token, pos: the next character
  IF i > Len(toks) THEN SubSeq(text, pos, Len(text))
  ELSE LET t    == toks[i]
           body == SubSeq(text, t.begin + 1, t.end)
           gap  == SubSeq(text, pos, t.begin)
       IN  gap
           \o (IF i \in covered THEN MatchOpen \o body \o MatchClose ELSE body)
           \o HighlightFrom(text, toks, covered, i + 1, t.end + 1)

highlight(column, expr) ==
  LET toks    == FtsTokens(column)
      terms   == FtsTerms(column)
      qp      == QueryPhrases(expr)
      phrases == {qp[i] : i \in 1..Len(qp)} \ {<<>>}
      covered == {j \in 1..Len(toks) : \E ph \in phrases : PhraseAt(terms, ph, j)}
  IN  HighlightFrom(column, toks, covered, 1, 1)

\* snippet(documents_fts, 1, open, close, '...', 64): tokens MATCH restricts
\* the expression to the tokens column, so no phrase instance lies in the
\* content column; a value of at most 64 tokens is returned whole
snippet(content) == content

\* the surface wrapped in double quotes as it is
SafeSurface_Unescaped(surface) == <<"\"">> \o surface \o <<"\"">>

\* surface.replace('"', '""') wrapped in double quotes
SafeSurface(surface) == <<"\"">> \o Replace(surface, <<"\"">>, <<"\"", "\"">>) \o <<"\"">>

\* " ".join(safe_surfaces)
RECURSIVE JoinBlank(_)
JoinBlank(strs) ==
  IF strs = <<>> THEN <<>>
  ELSE IF Len(strs) = 1 THEN strs[1]
       ELSE strs[1] \o <<" ">> \o JoinBlank(Tail(strs))

fts_query(query) ==
  LET query_token_data == tokenize(query)
  IN  JoinBlank([i \in 1..Len(query_token_data) |->
                   SafeSurface(query_token_data[i][1])])

\* ------------------------------------------------------------------------
\* State
\* ------------------------------------------------------------------------
VARIABLES
  fs,          \* the file tree: file path -> [exists, data, mtime]
  ignorefile,  \* DirA/.gitignore exists (it holds the one pattern "x")
  fts,         \* documents_fts: a bag of rows [path, content, tokens]
  meta,        \* documents_meta: path -> [mtime, scanned_at, token_locations]
  clock,       \* the last value time.time() returned; every read returns a
               \* later value than the one before
  calls,       \* number of tool calls made
  fsops,       \* number of changes the environment made to the tree
  scan,        \* the running or last index_directory call
  upd,         \* the running or last update_file call
  delres,      \* what the last delete_index call returned
  hist,        \* history: the store as the last undisturbed scan left it
  vp,          \* validate_path applied to a path string (SpecPath)
  sr,          \* the running or last search_documents call (SpecSearch)
  schema,      \* the tables of documents.db and init_db's progress (SpecInitDb)
  bw,          \* the commits of a long directory walk (SpecBatch)
  wt,          \* Observer instances, WATCHED_PATHS, watch_directory calls
               \* (SpecWatch)
  pf,          \* a function of the module applied to an argument (SpecQuery,
               \* SpecCodec, SpecTokenize), and the pages of
               \* list_indexed_files (SpecList)
  ev           \* the FTSHandler of a watched root, the events delivered to it
               \* and the Observer thread that dispatches them (SpecEvents)

\* the state of the parts a specification does not exercise
aux == <<schema, bw, wt, pf, ev>>

vars == <<fs, ignorefile, fts, meta, clock, calls, fsops, scan, upd, delres, hist,
          vp, sr, schema, bw, wt, pf, ev>>

NoFile == [exists |-> FALSE, data |-> <<>>, mtime |-> 0]

EmptyMeta == [p \in {} |-> 0]

Exists(path) == path \in Files /\ fs[path].exists

\* The directories of the tree: /w and /w/a are always there; /w/ab is
\* created with its one file and removed with it.
IsDir(path) ==
  \/ path \in {<<Sep>>, Cwd, DirA}
  \/ path = DirAB /\ Exists(FileS)

\* os.path.exists(path)
os_path_exists(path) == Exists(path) \/ IsDir(path)

\* ---- the two relations ----
DocRow(path, content, tokens_str) ==
  [path |-> path, content |-> content, tokens |-> tokens_str]

\* the rows of a bag of document rows that carry the path
RowsOf(bag, path) == {r \in BagToSet(bag) : r.path = path}

\* number of rows of the bag whose path is in the set
RECURSIVE SumCopies(_, _)
SumCopies(bag, rows) ==
  IF rows = {} THEN 0
  ELSE LET r == CHOOSE x \in rows : TRUE
       IN  CopiesIn(r, bag) + SumCopies(bag, rows \ {r})

CountRows(bag, paths) == SumCopies(bag, {r \in BagToSet(bag) : r.path \in paths})

DocPathsOf(bag) == {r.path : r \in BagToSet(bag)}

\* DELETE FROM documents_fts WHERE path IN paths
DeleteDocs(bag, paths) ==
  [r \in {x \in BagToSet(bag) : x.path \notin paths} |-> bag[r]]

\* INSERT INTO documents_fts (path, content, tokens)
InsertDoc(bag, row) == bag (+) SetToBag({row})

\* the insert without the delete before it
UpsertDocument_NoDelete(bag, path, content, tokens_str) ==
  InsertDoc(bag, DocRow(path, content, tokens_str))

\* DELETE FROM documents_fts WHERE path = ?  then  INSERT INTO documents_fts
UpsertDocument(bag, path, content, tokens_str) ==
  InsertDoc(DeleteDocs(bag, {path}), DocRow(path, content, tokens_str))

\* DELETE FROM documents_meta WHERE path IN paths
DeleteMeta(m, paths) == [p \in (DOMAIN m) \ paths |-> m[p]]

\* an upsert that keeps the stored mtime of an existing row
UpsertMetadata_KeepMtime(m, path, mtime, scanned_at, blob) ==
  [p \in (DOMAIN m) \cup {path} |->
     IF p = path
     THEN [mtime |-> IF path \in DOMAIN m THEN m[path].mtime ELSE mtime,
           scanned_at |-> scanned_at, token_locations |-> blob]
     ELSE m[p]]

\* INSERT INTO documents_meta ... ON CONFLICT(path) DO UPDATE SET ...
UpsertMetadata(m, path, mtime, scanned_at, blob) ==
  [p \in (DOMAIN m) \cup {path} |->
     IF p = path
     THEN [mtime |-> mtime, scanned_at |-> scanned_at, token_locations |-> blob]
     ELSE m[p]]

\* UPDATE documents_meta SET scanned_at = ?, mtime = ? WHERE path = ?
TouchScannedAt_AndMtime(m, path, scanned_at) ==
  IF path \in DOMAIN m
  THEN [m EXCEPT ![path].scanned_at = scanned_at, ![path].mtime = scanned_at]
  ELSE m

\* UPDATE documents_meta SET scanned_at = ? WHERE path = ?
TouchScannedAt(m, path, scanned_at) ==
  IF path \in DOMAIN m THEN [m EXCEPT ![path].scanned_at = scanned_at] ELSE m

\* the rows update_file and the scan write for a file holding the data
ExpectedDoc(path, data) ==
  DocRow(path, ReadText(data), JoinSurfaces(tokenize(ReadText(data))))

ExpectedMeta(mtime, scanned_at, data) ==
  [mtime |-> mtime, scanned_at |-> scanned_at,
   token_locations |-> PackOffsets(tokenize(ReadText(data)))]

\* The write lock of the database is held from the first DELETE/INSERT of a
\* transaction to its commit.  Only the single-file update keeps a
\* transaction open across a file system call (getmtime after the rows of
\* documents_fts were written); every other writer waits for it.
WriteLockFree == upd.pc # "stat"

\* ---- ignore rules and the walk ----
IsHidden(path) == LET n == Basename(path) IN n # <<>> /\ n[1] = "."

\* ignore_spec.match_file(relpath(file_path, root_path)) for the pattern "x"
MatchesIgnore(path) == Basename(path) = <<"x">>

\* os.path.exists(join(root_path, ".gitignore")) and the spec loaded from it
LoadIgnoreSpec(root_path) == ignorefile /\ root_path = DirA

FileOrder == <<FileH, FileX, FileS>>

\* a walk that ends at the first file that is not valid UTF-8
WalkList_StopAtUndecodable(root_path, ignore_spec) ==
  LET Keep(f) == /\ Exists(f)
                 /\ UnderRoot(root_path, f)
                 /\ f # root_path
                 /\ ~IsHidden(f)
                 /\ ~(ignore_spec /\ MatchesIgnore(f))
      all     == SelectSeq(FileOrder, Keep)
      bad     == {i \in 1..Len(all) : ~Decodable(fs[all[i]].data)}
  IN  IF bad = {} THEN all
      ELSE SubSeq(all, 1, CHOOSE i \in bad : \A j \in bad : i <= j)

\* the files os.walk(root_path) yields that pass the filename.startswith(".")
\* and the ignore_spec filters, in directory order
WalkList(root_path, ignore_spec) ==
  LET Keep(f) == /\ Exists(f)
                 /\ UnderRoot(root_path, f)
                 /\ f # root_path
                 /\ ~IsHidden(f)
                 /\ ~(ignore_spec /\ MatchesIgnore(f))
  IN  SelectSeq(FileOrder, Keep)

\* ------------------------------------------------------------------------
\* Initial state
\* ------------------------------------------------------------------------
HistNone ==
  [valid |-> FALSE, root |-> <<>>, fts |-> EmptyBag, meta |-> EmptyMeta, removed |-> {}]

ScanIdle ==
  [pc |-> "idle", stage |-> "stat", root |-> <<>>, time |-> 0, ignore |-> FALSE,
   todo |-> <<>>, fmtime |-> 0, needs |-> FALSE, u |-> 0, s |-> 0, d |-> 0,
   result |-> "none", quiet |-> FALSE, chk |-> FALSE]

UpdIdle ==
  [pc |-> "idle", path |-> <<>>, time |-> 0, content |-> <<>>,
   result |-> "none", quiet |-> FALSE, replaced |-> FALSE, oldmtime |-> 0,
   rmtime |-> 0]

DelNone == [pc |-> "idle", raised |-> FALSE, n |-> 0]

VpNone == [input |-> <<>>, applied |-> FALSE, raised |-> FALSE, value |-> <<>>]

SrNone == [pc |-> "idle", query |-> <<>>, limit |-> 0, results |-> <<>>]

\* documents.db as this version of init_db leaves it
SchemaCurrent ==
  [pc |-> "idle", fts_table |-> TRUE, meta_table |-> TRUE,
   token_locations |-> TRUE, wal |-> TRUE]

\* no transaction open on the connection
NoTxn == [open |-> FALSE, updates |-> 0, files |-> 0]

BwNone ==
  [pc |-> "idle", visited |-> 0, kind |-> "none", updated_count |-> 0,
   skipped_count |-> 0, txn |-> NoTxn]

\* ---- the watcher ----
\* the threads that call watch_directory
Callers == {"c1", "c2"}

\* Observer(): a watcher thread that has not been started
NewObserver == [state |-> "unstarted", handlers |-> <<>>]

WatchPre == [watched |-> {}, insts |-> <<>>, observer |-> 0]

LastNone == [root |-> <<>>, result |-> "none", quiet |-> FALSE]

WatchCallIdle ==
  [pc |-> "idle", root |-> <<>>, result |-> "none", quiet |-> FALSE,
   pre |-> WatchPre, follows |-> LastNone]

\* the module as loaded: observer = Observer(), WATCHED_PATHS = set()
WtNone ==
  [insts |-> <<NewObserver>>, observer |-> 1, watched |-> {},
   call |-> [c \in Callers |-> WatchCallIdle],
   ncalls |-> 0, deaths |-> 0,
   last |-> LastNone, start_on_stopped |-> FALSE]

PfNone == [op |-> "none", arg |-> <<>>, out |-> <<>>, applied |-> FALSE]

\* ---- the event handler ----
\* no event taken from the queue
NoEvent ==
  [type |-> "none", src |-> <<>>, dest |-> <<>>, is_directory |-> FALSE,
   fresh |-> TRUE]

\* no root is watched: no handler, no event delivered
EvNone ==
  [root_path |-> <<>>, ignore_spec |-> FALSE, alive |-> FALSE, queue |-> <<>>,
   k |-> 0, event |-> NoEvent, invoked |-> <<>>, handled |-> <<>>]

\* the parts a specification does not exercise stay as they are here
AuxInit ==
  /\ schema = SchemaCurrent
  /\ bw = BwNone
  /\ wt = WtNone
  /\ pf = PfNone
  /\ ev = EvNone

Init ==
  /\ fs = [f \in Files |-> NoFile]
  /\ ignorefile = FALSE
  /\ fts = EmptyBag
  /\ meta = EmptyMeta
  /\ clock = 0
  /\ calls = 0
  /\ fsops = 0
  /\ scan = ScanIdle
  /\ upd = UpdIdle
  /\ delres = DelNone
  /\ hist = HistNone
  /\ vp = VpNone
  /\ sr = SrNone
  /\ AuxInit

\* ------------------------------------------------------------------------
\* History bookkeeping (not program state)
\* ------------------------------------------------------------------------
ScanRunning == scan.pc = "walk"

\* no call has returned a result that its caller has not taken yet
NoResultPending ==
  scan.pc # "done" /\ upd.pc # "done" /\ delres.pc # "done" /\ sr.pc # "done"
UpdRunning  == upd.pc \in {"read", "stat"}

\* another activity took a step while the scan / the update was running
ScanDisturbed == IF ScanRunning THEN [scan EXCEPT !.quiet = FALSE] ELSE scan
UpdDisturbed  == IF UpdRunning  THEN [upd  EXCEPT !.quiet = FALSE] ELSE upd

\* ------------------------------------------------------------------------
\* The file tree changes under the program
\* ------------------------------------------------------------------------
FsWrite(f, version) ==
  /\ NoResultPending
  /\ fsops < MaxFsOps
  /\ fs[f] # version
  /\ fs' = [fs EXCEPT ![f] = version]
  /\ fsops' = fsops + 1
  /\ scan' = ScanDisturbed
  /\ upd' = UpdDisturbed
  /\ hist' = HistNone
  /\ UNCHANGED <<ignorefile, fts, meta, clock, calls, delres, vp, sr, aux>>

FsRemove(f) ==
  /\ NoResultPending
  /\ fsops < MaxFsOps
  /\ fs[f].exists
  /\ fs' = [fs EXCEPT ![f] = NoFile]
  /\ fsops' = fsops + 1
  /\ scan' = ScanDisturbed
  /\ upd' = UpdDisturbed
  /\ hist' = IF hist.valid /\ scan.pc = "idle" /\ ~UpdRunning
             THEN [hist EXCEPT !.removed = @ \cup {f}]
             ELSE HistNone
  /\ UNCHANGED <<ignorefile, fts, meta, clock, calls, delres, vp, sr, aux>>

FsSetIgnore ==
  /\ NoResultPending
  /\ fsops < MaxFsOps
  /\ ignorefile' = ~ignorefile
  /\ fsops' = fsops + 1
  /\ scan' = ScanDisturbed
  /\ upd' = UpdDisturbed
  /\ hist' = HistNone
  /\ UNCHANGED <<fs, fts, meta, clock, calls, delres, vp, sr, aux>>

\* ------------------------------------------------------------------------
\* _update_or_remove_file, called by update_file
\* ------------------------------------------------------------------------
\* update_file: validate_path, then in _update_or_remove_file validate_path
\* again, time.time(), and the os.path.exists branch that deletes both rows
UpdStart(input) ==
  /\ NoResultPending
  /\ upd.pc = "idle"
  /\ calls < MaxCalls
  /\ calls' = calls + 1
  /\ LET v == validate_path(input) IN
     IF v.raised
     THEN /\ upd' = [UpdIdle EXCEPT !.pc = "done", !.result = "raise"]
          /\ UNCHANGED <<clock, fts, meta>>
     ELSE LET file_path == validate_path(v.value).value IN
          /\ clock' = clock + 1
          /\ IF ~Exists(file_path)
             THEN /\ fts' = DeleteDocs(fts, {file_path})
                  /\ meta' = DeleteMeta(meta, {file_path})
                  /\ upd' = [UpdIdle EXCEPT !.pc = "done", !.path = file_path,
                                            !.time = clock + 1,
                                            !.result = "Removed",
                                            !.quiet = ~ScanRunning]
             ELSE /\ upd' = [UpdIdle EXCEPT !.pc = "read", !.path = file_path,
                                            !.time = clock + 1,
                                            !.quiet = ~ScanRunning]
                  /\ UNCHANGED <<fts, meta>>
  /\ scan' = ScanDisturbed
  /\ hist' = HistNone
  /\ UNCHANGED <<fs, ignorefile, fsops, delres, vp, sr, aux>>

\* open(file_path).read(), tokenize, pack; the rows of documents_fts are then
\* deleted and inserted inside the transaction, which stays open
\* (rmtime is history: the modification time of the version that was read)
UpdRead ==
  /\ NoResultPending
  /\ upd.pc = "read"
  /\ IF ~Exists(upd.path)
     THEN upd' = [upd EXCEPT !.pc = "done", !.result = "Failed"]
     ELSE IF ~Decodable(fs[upd.path].data)
          THEN upd' = [upd EXCEPT !.pc = "done", !.result = "Skipped"]
          ELSE upd' = [upd EXCEPT !.pc = "stat",
                                  !.content = ReadText(fs[upd.path].data),
                                  !.rmtime = fs[upd.path].mtime]
  /\ scan' = ScanDisturbed
  /\ hist' = HistNone
  /\ UNCHANGED <<fs, ignorefile, fts, meta, clock, calls, fsops, delres, vp, sr, aux>>

\* the rows the open transaction holds for documents_fts
UpdPendingFts(bag) ==
  UpsertDocument(bag, upd.path, upd.content, JoinSurfaces(tokenize(upd.content)))

\* os.path.getmtime(file_path), the metadata upsert, and the commit on leaving
\* "with conn": the except branch returns inside the block, so the rows of
\* documents_fts written before the failure are committed as well
UpdStat ==
  /\ NoResultPending
  /\ upd.pc = "stat"
  /\ fts' = UpdPendingFts(fts)
  /\ IF ~Exists(upd.path)
     THEN /\ upd' = [upd EXCEPT !.pc = "done", !.result = "Failed"]
          /\ UNCHANGED meta
     ELSE /\ meta' = UpsertMetadata(meta, upd.path, fs[upd.path].mtime, upd.time,
                                    PackOffsets(tokenize(upd.content)))
          /\ upd' = [upd EXCEPT !.pc = "done", !.result = "Updated",
                                 !.replaced = \E r \in RowsOf(fts, upd.path) :
                                                 r.content # upd.content,
                                 !.oldmtime = IF upd.path \in DOMAIN meta
                                              THEN meta[upd.path].mtime ELSE 0]
  /\ scan' = ScanDisturbed
  /\ hist' = HistNone
  /\ UNCHANGED <<fs, ignorefile, clock, calls, fsops, delres, vp, sr, aux>>

\* ------------------------------------------------------------------------
\* index_directory
\* ------------------------------------------------------------------------
\* validate_path, time.time(), the .gitignore of the root, and the listing
\* os.walk makes of the root (every file of the model lies directly in its
\* directory, so the listing is made once)
ScanStart(input) ==
  /\ NoResultPending
  /\ scan.pc = "idle"
  /\ calls < MaxCalls
  /\ calls' = calls + 1
  /\ LET v == validate_path(input) IN
     IF v.raised
     THEN /\ scan' = [ScanIdle EXCEPT !.pc = "done", !.result = "raise"]
          /\ hist' = HistNone
          /\ UNCHANGED clock
     ELSE LET root_path   == v.value
              ignore_spec == LoadIgnoreSpec(root_path)
              follows     == /\ hist.valid
                             /\ hist.root = root_path
                             /\ ~UpdRunning
          IN  /\ clock' = clock + 1
              /\ scan' = [ScanIdle EXCEPT !.pc = "walk", !.root = root_path,
                                          !.time = clock + 1,
                                          !.ignore = ignore_spec,
                                          !.todo = WalkList(root_path, ignore_spec),
                                          !.quiet = ~UpdRunning,
                                          !.chk = follows]
              /\ hist' = IF follows THEN hist ELSE HistNone
  /\ upd' = UpdDisturbed
  /\ UNCHANGED <<fs, ignorefile, fts, meta, fsops, delres, vp, sr, aux>>

\* an update is needed also when the file is exactly as old as the stored mtime
NeedsUpdate_Strict(m, file_path, file_mtime) ==
  ~(file_path \in DOMAIN m /\ file_mtime < m[file_path].mtime)

\* needs_update: no row of documents_meta for the path, or the file is newer
\* than the stored mtime
NeedsUpdate(m, file_path, file_mtime) ==
  ~(file_path \in DOMAIN m /\ file_mtime <= m[file_path].mtime)

\* os.path.getmtime and SELECT mtime FROM documents_meta: is an update needed
ScanStat ==
  /\ NoResultPending
  /\ scan.pc = "walk"
  /\ scan.stage = "stat"
  /\ scan.todo # <<>>
  /\ LET file_path == Head(scan.todo) IN
     IF ~Exists(file_path)
     THEN scan' = [scan EXCEPT !.todo = Tail(@)]
     ELSE LET file_mtime   == fs[file_path].mtime
              needs_update == NeedsUpdate(meta, file_path, file_mtime)
          IN  scan' = [scan EXCEPT !.stage = "apply",
                                   !.fmtime = file_mtime,
                                   !.needs = needs_update]
  /\ UNCHANGED <<fs, ignorefile, fts, meta, clock, calls, fsops, upd, delres, hist, vp, sr, aux>>

\* read, tokenize and upsert both rows in one transaction, or, for an
\* unchanged file, UPDATE scanned_at; failures leave the file out
ScanApply ==
  /\ NoResultPending
  /\ scan.pc = "walk"
  /\ scan.stage = "apply"
  /\ WriteLockFree
  /\ LET file_path == Head(scan.todo)
         next      == [scan EXCEPT !.stage = "stat", !.todo = Tail(@),
                                   !.fmtime = 0, !.needs = FALSE]
     IN
     IF scan.needs
     THEN IF ~Exists(file_path) \/ ~Decodable(fs[file_path].data)
          THEN /\ scan' = next
               /\ UNCHANGED <<fts, meta>>
          ELSE LET content    == ReadText(fs[file_path].data)
                   token_data == tokenize(content)
               IN  /\ fts' = UpsertDocument(fts, file_path, content,
                                            JoinSurfaces(token_data))
                   /\ meta' = UpsertMetadata(meta, file_path, scan.fmtime,
                                             scan.time, PackOffsets(token_data))
                   /\ scan' = [next EXCEPT !.u = @ + 1]
     ELSE /\ meta' = TouchScannedAt(meta, file_path, scan.time)
          /\ scan' = [next EXCEPT !.s = @ + 1]
          /\ UNCHANGED fts
  /\ upd' = UpdDisturbed
  /\ UNCHANGED <<fs, ignorefile, clock, calls, fsops, delres, hist, vp, sr, aux>>

\* the purge keyed on the stored mtime instead of scanned_at
StalePaths_ByMtime(m, root_path, current_time) ==
  {p \in DOMAIN m : RootPredicate(root_path, p) /\ m[p].mtime < current_time}

\* SELECT path FROM documents_meta WHERE (path = ? OR path LIKE ?)
\*                                   AND scanned_at < ?
StalePaths(m, root_path, current_time) ==
  {p \in DOMAIN m : RootPredicate(root_path, p) /\ m[p].scanned_at < current_time}

\* the stale purge after the walk, and the report
ScanCleanup ==
  /\ NoResultPending
  /\ scan.pc = "walk"
  /\ scan.stage = "stat"
  /\ scan.todo = <<>>
  /\ WriteLockFree
  /\ LET stale == StalePaths(meta, scan.root, scan.time) IN
     /\ fts' = DeleteDocs(fts, stale)
     /\ meta' = DeleteMeta(meta, stale)
     /\ scan' = [scan EXCEPT !.pc = "done", !.d = Cardinality(stale),
                             !.result = "Indexed"]
     /\ hist' = IF scan.chk THEN hist
                ELSE IF scan.quiet
                     THEN [valid |-> TRUE, root |-> scan.root,
                           fts |-> DeleteDocs(fts, stale),
                           meta |-> DeleteMeta(meta, stale),
                           removed |-> {}]
                     ELSE HistNone
  /\ upd' = UpdDisturbed
  /\ UNCHANGED <<fs, ignorefile, clock, calls, fsops, delres, vp, sr, aux>>

\* ------------------------------------------------------------------------
\* delete_index
\* ------------------------------------------------------------------------
DeleteIndex(input) ==
  /\ NoResultPending
  /\ WriteLockFree
  /\ calls < MaxCalls
  /\ calls' = calls + 1
  /\ LET v == validate_path(input) IN
     IF v.raised
     THEN /\ delres' = [pc |-> "done", raised |-> TRUE, n |-> 0]
          /\ UNCHANGED <<fts, meta>>
     ELSE LET root_path == v.value
              docs      == {p \in DocPathsOf(fts) : RootPredicate(root_path, p)}
              metas     == {p \in DOMAIN meta : RootPredicate(root_path, p)}
          IN  /\ fts' = DeleteDocs(fts, docs)
              /\ meta' = DeleteMeta(meta, metas)
              /\ delres' = [pc |-> "done", raised |-> FALSE,
                            n |-> CountRows(fts, docs)]
  /\ scan' = ScanDisturbed
  /\ upd' = UpdDisturbed
  /\ hist' = HistNone
  /\ UNCHANGED <<fs, ignorefile, clock, fsops, vp, sr, aux>>

\* ------------------------------------------------------------------------
\* search_documents
\* ------------------------------------------------------------------------
\* ["No matches found."]
NoMatches == [kind |-> "none", path |-> <<>>, line |-> 0, snippet |-> <<>>]

\* token_map_lookup.get(path): None when documents_meta has no row
token_map_lookup(m, path) ==
  IF path \in DOMAIN m THEN m[path].token_locations ELSE Null

\* a blob that is None or empty is false in "and token_locations_blob"
BlobIsTrue(blob) == blob # <<>> /\ blob[1] >= 0

\* the line number with 0 in place of the fall-back line 1
line_number_FallBackZero(path, highlighted_tokens, token_locations_blob) ==
  LET match_start == Find(highlighted_tokens, MatchOpen) IN
  IF match_start = -1 \/ ~BlobIsTrue(token_locations_blob) THEN 0
  ELSE LET token_index == Count(SubSeq(highlighted_tokens, 1, match_start), " ")
           count       == Len(token_locations_blob) \div 4
       IN  IF ~(token_index < count) THEN 0
           ELSE IF ~Exists(path) THEN 0
                ELSE LET original_byte_offset ==
                           unpack_from(token_locations_blob, token_index * 4)
                         bytes        == BytesOf(fs[path].data)
                         prefix_bytes ==
                           SubSeq(bytes, 1,
                                  IF original_byte_offset < Len(bytes)
                                  THEN original_byte_offset ELSE Len(bytes))
                     IN  Count(prefix_bytes, "LF") + 1

\* line_number = 1, replaced when the first marker of the highlighted tokens,
\* the offset table and the file give a line: the blanks before the marker
\* are counted as the token index, the offset at that index is unpacked, and
\* the newline bytes of that many bytes of the file are counted
line_number(path, highlighted_tokens, token_locations_blob) ==
  LET match_start == Find(highlighted_tokens, MatchOpen) IN
  IF match_start = -1 \/ ~BlobIsTrue(token_locations_blob) THEN 1
  ELSE LET token_index == Count(SubSeq(highlighted_tokens, 1, match_start), " ")
           count       == Len(token_locations_blob) \div 4
       IN  IF ~(token_index < count) THEN 1
           ELSE IF ~Exists(path) THEN 1
                ELSE LET original_byte_offset ==
                           unpack_from(token_locations_blob, token_index * 4)
                         bytes        == BytesOf(fs[path].data)
                         prefix_bytes ==
                           SubSeq(bytes, 1,
                                  IF original_byte_offset < Len(bytes)
                                  THEN original_byte_offset ELSE Len(bytes))
                     IN  Count(prefix_bytes, "LF") + 1

\* safe_snippet.replace("{{{MATCH}}}", "<b>").replace("{{{/MATCH}}}", "</b>")
final_snippet(raw_snippet) ==
  Replace(Replace(html_escape(raw_snippet), MatchOpen, BoldOpen), MatchClose, BoldClose)

\* f"File: {path}:{line_number}\nSnippet: {final_snippet}\n"
ResultFor(row, expr) ==
  [kind    |-> "hit",
   path    |-> row.path,
   line    |-> line_number(row.path, highlight(row.tokens, expr),
                           token_map_lookup(meta, row.path)),
   snippet |-> final_snippet(snippet(row.content))]

\* the rows of documents_fts with tokens MATCH expr
MatchingRows(expr) == {r \in BagToSet(fts) : Matches(r.tokens, expr)}

\* a set of rows as a sequence, path by path
RECURSIVE RowsInOrder(_, _)
RowsInOrder(rows, paths) ==
  IF paths = <<>> THEN <<>>
  ELSE LET here == {r \in rows : r.path = Head(paths)} IN
       IF here = {} THEN RowsInOrder(rows, Tail(paths))
       ELSE LET r == CHOOSE x \in here : TRUE
            IN  <<r>> \o RowsInOrder(rows \ {r}, paths)

Reverse(seq) == [i \in 1..Len(seq) |-> seq[Len(seq) + 1 - i]]

\* the query without its LIMIT
Limited_Unlimited(rows, limit) == rows

\* LIMIT ?: a negative limit is no limit
Limited(rows, limit) ==
  IF limit < 0 \/ limit >= Len(rows) THEN rows ELSE SubSeq(rows, 1, limit)

\* search_documents(query, limit) without path_filter and extensions.
\* ORDER BY rank leaves the order of the rows to bm25: by_path chooses
\* between the two orders of two rows.
Search(query, limit, by_path) ==
  /\ NoResultPending
  /\ LET expr    == fts_query(query)
         ordered == RowsInOrder(MatchingRows(expr), FileOrder)
         rows    == Limited(IF by_path THEN ordered ELSE Reverse(ordered), limit)
         results == [i \in 1..Len(rows) |-> ResultFor(rows[i], expr)]
     IN  sr' = [pc |-> "done", query |-> query, limit |-> limit,
                results |-> IF tokenize(query) = <<>> \/ rows = <<>> \/ results = <<>>
                            THEN <<NoMatches>>
                            ELSE results]
  /\ UNCHANGED <<fs, ignorefile, fts, meta, clock, calls, fsops, scan, upd, delres,
                 hist, vp, aux>>

\* ------------------------------------------------------------------------
\* The caller takes the result of the call that returned
\* ------------------------------------------------------------------------
Return ==
  /\ ~NoResultPending
  /\ scan' = IF scan.pc = "done" THEN ScanIdle ELSE scan
  /\ upd' = IF upd.pc = "done" THEN UpdIdle ELSE upd
  /\ delres' = DelNone
  /\ sr' = SrNone
  /\ hist' = IF scan.pc = "done" /\ scan.chk THEN HistNone ELSE hist
  /\ UNCHANGED <<fs, ignorefile, fts, meta, clock, calls, fsops, vp, aux>>

\* ------------------------------------------------------------------------
\* Specification
\* ------------------------------------------------------------------------
ScanInputs   == {DirA, DirAB, PathOutside}
UpdInputs    == Files \cup {PathRelX, PathOutside}
DeleteInputs == {DirA, DirWc, DirUp, FileX, PathEscape}

Next ==
  \/ \E f \in Files : \E version \in VersionsOf(f) : FsWrite(f, version)
  \/ \E f \in Files : FsRemove(f)
  \/ FsSetIgnore
  \/ \E input \in UpdInputs : UpdStart(input)
  \/ UpdRead
  \/ UpdStat
  \/ \E input \in ScanInputs : ScanStart(input)
  \/ ScanStat
  \/ ScanApply
  \/ ScanCleanup
  \/ \E input \in DeleteInputs : DeleteIndex(input)
  \/ Return

Spec == Init /\ [][Next]_vars

\* ------------------------------------------------------------------------
\* index_directory on the whole working directory, whose walk visits the
\* files of both sub-directories one after the other
\* ------------------------------------------------------------------------
WalkInputs == {Cwd}

NextWalk ==
  \/ \E f \in Files : \E version \in VersionsOf(f) : FsWrite(f, version)
  \/ \E f \in Files : FsRemove(f)
  \/ \E input \in WalkInputs : ScanStart(input)
  \/ ScanStat
  \/ ScanApply
  \/ ScanCleanup
  \/ Return

SpecWalk == Init /\ [][NextWalk]_vars

\* ------------------------------------------------------------------------
\* init_db on the databases earlier versions of the program left behind
\* ------------------------------------------------------------------------
\* the rows the earlier versions wrote for a file holding the data
LegacyDatas == {TextA, TextJ}

LegacyBags ==
  {SetToBag({ExpectedDoc(f, d[f]) : f \in paths}) :
     paths \in SUBSET Files, d \in [Files -> LegacyDatas]}

\* metadata rows for the documents of the bag, with or without the column
LegacyMeta(bag, with_column) ==
  [path \in DocPathsOf(bag) |->
     [mtime |-> 1, scanned_at |-> 1,
      token_locations |->
        IF with_column
        THEN PackOffsets(tokenize((CHOOSE r \in RowsOf(bag, path) : TRUE).content))
        ELSE Null]]

\* no database yet, the first layout (documents_fts only), the layout with
\* documents_meta but without token_locations, and the current layout
InitLegacy ==
  /\ fs = [f \in Files |-> NoFile]
  /\ ignorefile = FALSE
  /\ clock = 0
  /\ calls = 0
  /\ fsops = 0
  /\ scan = ScanIdle
  /\ upd = UpdIdle
  /\ delres = DelNone
  /\ hist = HistNone
  /\ vp = VpNone
  /\ sr = SrNone
  /\ bw = BwNone
  /\ wt = WtNone
  /\ pf = PfNone
  /\ ev = EvNone
  /\ \/ /\ schema = [pc |-> "idle", fts_table |-> FALSE, meta_table |-> FALSE,
                      token_locations |-> FALSE, wal |-> FALSE]
        /\ fts = EmptyBag
        /\ meta = EmptyMeta
     \/ /\ schema = [pc |-> "idle", fts_table |-> TRUE, meta_table |-> FALSE,
                      token_locations |-> FALSE, wal |-> FALSE]
        /\ fts \in LegacyBags
        /\ meta = EmptyMeta
     \/ \E with_column \in BOOLEAN :
          /\ schema = [pc |-> "idle", fts_table |-> TRUE, meta_table |-> TRUE,
                        token_locations |-> with_column, wal |-> with_column]
          /\ fts \in LegacyBags
          /\ meta = LegacyMeta(fts, with_column)

\* init_db: CREATE VIRTUAL TABLE IF NOT EXISTS documents_fts, CREATE TABLE IF
\* NOT EXISTS documents_meta, ALTER TABLE ... ADD COLUMN token_locations (its
\* OperationalError is passed over), PRAGMA journal_mode=WAL.  No statement
\* of it deletes or rewrites a row.
init_db ==
  /\ schema.pc = "idle"
  /\ schema' = [pc |-> "done", fts_table |-> TRUE, meta_table |-> TRUE,
                token_locations |-> TRUE, wal |-> TRUE]
  /\ UNCHANGED <<fs, ignorefile, fts, meta, clock, calls, fsops, scan, upd,
                 delres, hist, vp, sr, bw, wt, pf, ev>>

NextInitDb == init_db

SpecInitDb == InitLegacy /\ [][NextInitDb]_vars

\* ------------------------------------------------------------------------
\* The transactions of index_directory over a walk of many files
\* ------------------------------------------------------------------------
BATCH_SIZE == 50

\* the walk yields at most MaxWalkFiles files
MaxWalkFiles == 52

\* sqlite3 opens a transaction before the first INSERT, UPDATE or DELETE
\* and keeps adding to it until a commit or rollback
TxnWrite(txn, is_update) ==
  [open |-> TRUE,
   updates |-> txn.updates + (IF is_update THEN 1 ELSE 0),
   files |-> txn.files + 1]

\* leaving "with conn:" without a commit
ExitWith_NoCommit(txn) == txn

\* leaving "with conn:" normally commits the transaction
ExitWith(txn) == NoTxn

\* conn.commit()
Commit(txn) == NoTxn

\* an exception inside "with conn:" rolls the transaction back
Rollback(txn) == NoTxn

InitBatch ==
  /\ fs = [f \in Files |-> NoFile]
  /\ ignorefile = FALSE
  /\ fts = EmptyBag
  /\ meta = EmptyMeta
  /\ clock = 0
  /\ calls = 0
  /\ fsops = 0
  /\ scan = ScanIdle
  /\ upd = UpdIdle
  /\ delres = DelNone
  /\ hist = HistNone
  /\ vp = VpNone
  /\ sr = SrNone
  /\ schema = SchemaCurrent
  /\ wt = WtNone
  /\ pf = PfNone
  /\ ev = EvNone
  /\ bw = [BwNone EXCEPT !.pc = "file"]

BwUnchanged ==
  UNCHANGED <<fs, ignorefile, fts, meta, clock, calls, fsops, scan, upd, delres,
              hist, vp, sr, schema, wt, pf, ev>>

\* the next file of the walk: getmtime, the SELECT, and for a file that needs
\* an update the read and tokenize; then the first statement inside
\* "with conn:" (the DELETE of the update branch, the UPDATE of the skip
\* branch, which comes after skipped_count += 1)
BatchEnterWith(needs_update) ==
  /\ bw.pc = "file"
  /\ bw.visited < MaxWalkFiles
  /\ bw' = [bw EXCEPT !.pc = "with",
                       !.visited = @ + 1,
                       !.kind = IF needs_update THEN "update" ELSE "skip",
                       !.skipped_count = IF needs_update THEN @ ELSE @ + 1,
                       !.txn = TxnWrite(@, needs_update)]
  /\ BwUnchanged

\* getmtime, open, read or tokenize raises: no statement was executed
BatchFileFails ==
  /\ bw.pc = "file"
  /\ bw.visited < MaxWalkFiles
  /\ bw' = [bw EXCEPT !.visited = @ + 1]
  /\ BwUnchanged

\* the block is left normally; updated_count += 1 after the update branch
BatchExitWith ==
  /\ bw.pc = "with"
  /\ bw' = [bw EXCEPT !.pc = "batch",
                       !.updated_count = IF bw.kind = "update" THEN @ + 1 ELSE @,
                       !.txn = ExitWith(@)]
  /\ BwUnchanged

\* a statement inside the block raises: rollback, then the except branch
BatchWriteFails ==
  /\ bw.pc = "with"
  /\ bw' = [bw EXCEPT !.pc = "file", !.kind = "none", !.txn = Rollback(@)]
  /\ BwUnchanged

\* if updated_count > 0 and updated_count % BATCH_SIZE == 0: conn.commit()
BatchCommit ==
  /\ bw.pc = "batch"
  /\ bw' = [bw EXCEPT !.pc = "file", !.kind = "none",
                       !.txn = IF /\ bw.updated_count > 0
                                  /\ bw.updated_count % BATCH_SIZE = 0
                               THEN Commit(@) ELSE @]
  /\ BwUnchanged

\* the walk is over: conn.commit() before the cleanup
BatchFinalCommit ==
  /\ bw.pc = "file"
  /\ bw' = [bw EXCEPT !.pc = "done", !.txn = Commit(@)]
  /\ BwUnchanged

NextBatch ==
  \/ \E needs_update \in BOOLEAN : BatchEnterWith(needs_update)
  \/ BatchFileFails
  \/ BatchExitWith
  \/ BatchWriteFails
  \/ BatchCommit
  \/ BatchFinalCommit

SpecBatch == InitBatch /\ [][NextBatch]_vars

\* ------------------------------------------------------------------------
\* watch_directory and the life of the Observer thread
\* ------------------------------------------------------------------------
MaxWatchCalls == 3
MaxDeaths == 2

WatchInputs == {DirA, Cwd, DirAB, PathOutside}

WtUnchanged ==
  UNCHANGED <<fs, ignorefile, fts, meta, clock, calls, fsops, scan, upd, delres,
              hist, vp, sr, schema, bw, pf, ev>>

\* observer.is_alive(): the thread was started and has not ended
is_alive(o) == o.state = "running"

\* a step of another thread falls inside the calls that are running
WatchDisturbed(call, c) ==
  [d \in Callers |->
     IF d # c /\ call[d].pc \in {"health", "dedup", "start"}
     THEN [call[d] EXCEPT !.quiet = FALSE]
     ELSE call[d]]

WatchRunning(c) == wt.call[c].pc \in {"health", "dedup", "start"}

\* no watch_directory call has a result that its caller has not taken yet
WatchNoResultPending == \A c \in Callers : wt.call[c].pc # "done"

\* the call of c has its result
WatchDone(c, result) ==
  [wt.call[c] EXCEPT !.pc = "done", !.result = result]

\* validate_path, os.path.exists(root_path), the .gitignore of the root and
\* FTSHandler(root_path, ignore_spec)
WatchBegin(c, input) ==
  /\ WatchNoResultPending
  /\ wt.call[c].pc = "idle"
  /\ wt.ncalls < MaxWatchCalls
  /\ LET v     == validate_path(input)
         begun == [WatchCallIdle EXCEPT
                     !.root = v.value,
                     !.quiet = \A d \in Callers \ {c} : ~WatchRunning(d),
                     !.pre = [watched |-> wt.watched, insts |-> wt.insts,
                              observer |-> wt.observer],
                     !.follows = wt.last]
         mine  == IF v.raised
                  THEN [begun EXCEPT !.pc = "done", !.result = "raise"]
                  ELSE IF ~os_path_exists(v.value)
                       THEN [begun EXCEPT !.pc = "done", !.result = "Error"]
                       ELSE [begun EXCEPT !.pc = "health"]
     IN  wt' = [wt EXCEPT !.call = [WatchDisturbed(wt.call, c) EXCEPT ![c] = mine],
                          !.ncalls = @ + 1,
                          !.last = IF mine.pc = "done"
                                   THEN [root |-> mine.root, result |-> mine.result,
                                         quiet |-> mine.quiet]
                                   ELSE @]
  /\ WtUnchanged

\* if observer is None or not observer.is_alive(): WATCHED_PATHS.clear() and
\* observer = Observer()
WatchHealth(c) ==
  /\ WatchNoResultPending
  /\ wt.call[c].pc = "health"
  /\ LET call == [WatchDisturbed(wt.call, c) EXCEPT ![c].pc = "dedup"] IN
     IF is_alive(wt.insts[wt.observer])
     THEN wt' = [wt EXCEPT !.call = call]
     ELSE wt' = [wt EXCEPT !.call = call,
                           !.watched = {},
                           !.insts = Append(@, NewObserver),
                           !.observer = Len(wt.insts) + 1]
  /\ WtUnchanged

\* the test never finds the root registered
AlreadyWatching_Never(watched, root_path) == FALSE

\* if root_path in WATCHED_PATHS
AlreadyWatching(watched, root_path) == root_path \in watched

\* return "Already watching", or WATCHED_PATHS.add(root_path)
WatchDedup(c) ==
  /\ WatchNoResultPending
  /\ wt.call[c].pc = "dedup"
  /\ LET call == WatchDisturbed(wt.call, c) IN
     IF AlreadyWatching(wt.watched, wt.call[c].root)
     THEN wt' = [wt EXCEPT !.call = [call EXCEPT ![c] = WatchDone(c, "Already")],
                           !.last = [root |-> wt.call[c].root,
                                     result |-> "Already",
                                     quiet |-> wt.call[c].quiet]]
     ELSE wt' = [wt EXCEPT !.call = [call EXCEPT ![c].pc = "start"],
                           !.watched = @ \cup {wt.call[c].root}]
  /\ WtUnchanged

\* if not observer.is_alive(): observer.start(); then observer.schedule(...).
\* start() on a thread that has ended raises RuntimeError; schedule raises
\* when the operating system refuses the watch (schedule_ok is FALSE).  Both
\* end in "Failed to start watcher".
WatchStart(c, schedule_ok) ==
  /\ WatchNoResultPending
  /\ wt.call[c].pc = "start"
  /\ LET o       == wt.insts[wt.observer]
         root    == wt.call[c].root
         call    == WatchDisturbed(wt.call, c)
         started == IF is_alive(o) THEN o ELSE [o EXCEPT !.state = "running"]
     IN
     IF o.state = "stopped"
     THEN wt' = [wt EXCEPT !.call = [call EXCEPT ![c] = WatchDone(c, "Failed")],
                           !.last = [root |-> root, result |-> "Failed",
                                          quiet |-> wt.call[c].quiet],
                           !.start_on_stopped = TRUE]
     ELSE IF ~schedule_ok
          THEN wt' = [wt EXCEPT !.call = [call EXCEPT ![c] = WatchDone(c, "Failed")],
                                !.last = [root |-> root, result |-> "Failed",
                                          quiet |-> wt.call[c].quiet],
                                !.insts[wt.observer] = started]
          ELSE wt' = [wt EXCEPT !.call = [call EXCEPT ![c] = WatchDone(c, "Started")],
                                !.last = [root |-> root, result |-> "Started",
                                          quiet |-> wt.call[c].quiet],
                                !.insts[wt.observer] =
                                   [started EXCEPT !.handlers = Append(@, root)]]
  /\ WtUnchanged

\* the Observer thread ends: observer.stop(), or an exception that leaves its
\* run loop
ObserverEnds ==
  /\ WatchNoResultPending
  /\ wt.deaths < MaxDeaths
  /\ wt.insts[wt.observer].state = "running"
  /\ wt' = [wt EXCEPT !.insts[wt.observer].state = "stopped",
                       !.deaths = @ + 1,
                       !.last = LastNone,
                       !.call = [d \in Callers |->
                                   IF WatchRunning(d)
                                   THEN [wt.call[d] EXCEPT !.quiet = FALSE]
                                   ELSE wt.call[d]]]
  /\ WtUnchanged

\* the caller takes the result of its call
WatchReturn(c) ==
  /\ wt.call[c].pc = "done"
  /\ wt' = [wt EXCEPT !.call[c] = WatchCallIdle]
  /\ WtUnchanged

InitWatch ==
  /\ fs = [f \in Files |-> NoFile]
  /\ ignorefile = FALSE
  /\ fts = EmptyBag
  /\ meta = EmptyMeta
  /\ clock = 0
  /\ calls = 0
  /\ fsops = 0
  /\ scan = ScanIdle
  /\ upd = UpdIdle
  /\ delres = DelNone
  /\ hist = HistNone
  /\ vp = VpNone
  /\ sr = SrNone
  /\ schema = SchemaCurrent
  /\ bw = BwNone
  /\ wt = WtNone
  /\ pf = PfNone
  /\ ev = EvNone

NextWatch ==
  \/ \E c \in Callers : \E input \in WatchInputs : WatchBegin(c, input)
  \/ \E c \in Callers : WatchHealth(c)
  \/ \E c \in Callers : WatchDedup(c)
  \/ \E c \in Callers : \E schedule_ok \in BOOLEAN : WatchStart(c, schedule_ok)
  \/ \E c \in Callers : WatchReturn(c)
  \/ ObserverEnds

SpecWatch == InitWatch /\ [][NextWatch]_vars

\* ------------------------------------------------------------------------
\* search_documents over an index that update_file builds and the file tree
\* outruns
\* ------------------------------------------------------------------------
TextCRLF   == <<"a", "CR", "LF", "b">>
TextLines  == <<"JA", "LF", "b">>
TextScript == <<"<", "a", ">", "&", "'", "\"", "b">>

SearchFiles == {FileX, FileS}

SearchVersions(f) ==
  IF f = FileX
  THEN {Version(TextCRLF, 1), Version(TextLines, 1), Version(TextScript, 1),
        Version(TextJ, 1)}
  ELSE {Version(TextA, 1), Version(TextLines, 1)}

Queries == {<<"b">>, <<" ">>, <<>>}

Limits == {-1, 0, 1}

NextSearch ==
  \/ \E f \in SearchFiles : \E version \in SearchVersions(f) : FsWrite(f, version)
  \/ \E f \in SearchFiles : FsRemove(f)
  \/ \E input \in SearchFiles : UpdStart(input)
  \/ UpdRead
  \/ UpdStat
  \/ \E query \in Queries : \E limit \in Limits : \E by_path \in BOOLEAN :
        Search(query, limit, by_path)
  \/ Return

SpecSearch == Init /\ [][NextSearch]_vars

\* ------------------------------------------------------------------------
\* The MATCH expression of a query on its own
\* ------------------------------------------------------------------------
MaxQueryLen == 3

QueryChars == {"a", "\"", "*", " ", "JA"}

QueryStrings == UNION {[1..k -> QueryChars] : k \in 0..MaxQueryLen}

\* every part but pf is as Init leaves it
PfRest ==
  /\ fs = [f \in Files |-> NoFile]
  /\ ignorefile = FALSE
  /\ fts = EmptyBag
  /\ meta = EmptyMeta
  /\ clock = 0
  /\ calls = 0
  /\ fsops = 0
  /\ scan = ScanIdle
  /\ upd = UpdIdle
  /\ delres = DelNone
  /\ hist = HistNone
  /\ vp = VpNone
  /\ sr = SrNone
  /\ schema = SchemaCurrent
  /\ bw = BwNone
  /\ wt = WtNone
  /\ ev = EvNone

PfUnchanged ==
  UNCHANGED <<fs, ignorefile, fts, meta, clock, calls, fsops, scan, upd, delres,
              hist, vp, sr, schema, bw, wt, ev>>

InitQuery ==
  /\ PfRest
  /\ \E query \in QueryStrings : pf = [PfNone EXCEPT !.op = "fts_query", !.arg = query]

\* search_documents up to fts_query = " ".join(safe_surfaces)
BuildQuery ==
  /\ pf.op = "fts_query"
  /\ ~pf.applied
  /\ pf' = [pf EXCEPT !.out = fts_query(pf.arg), !.applied = TRUE]
  /\ PfUnchanged

NextQuery == BuildQuery

SpecQuery == InitQuery /\ [][NextQuery]_vars

\* ------------------------------------------------------------------------
\* The offset table on its own
\* ------------------------------------------------------------------------
MaxOffsets == 2

\* offsets at the byte boundaries of an unsigned 32-bit number, up to the
\* largest number the model checker's integers hold (2^31 - 1)
OffsetValues == {0, 1, 255, 256, 65536, 16777216, 2147483647}

OffsetSeqs == UNION {[1..k -> OffsetValues] : k \in 0..MaxOffsets}

\* struct.pack(f"<{len(offsets)}I", *offsets) as the test of the legacy blob
\* writes it: byte j of the blob is byte (j - 1) % 4 of offset (j - 1) // 4
LegacyPack(offsets) ==
  [j \in 1..(4 * Len(offsets)) |->
     LET n     == offsets[((j - 1) \div 4) + 1]
         shift == (j - 1) % 4
     IN  (n \div (IF shift = 0 THEN 1 ELSE IF shift = 1 THEN 256
                   ELSE IF shift = 2 THEN 65536 ELSE 16777216)) % 256]

InitCodec ==
  /\ PfRest
  /\ \E offsets \in OffsetSeqs : pf = [PfNone EXCEPT !.op = "offsets", !.arg = offsets]

\* token_offsets = [t[1] for t in token_data]; struct.pack of them
Encode ==
  /\ pf.op = "offsets"
  /\ ~pf.applied
  /\ pf' = [pf EXCEPT !.op = "packed",
                       !.out = PackOffsets([i \in 1..Len(pf.arg) |-> <<<<>>, pf.arg[i]>>]),
                       !.applied = TRUE]
  /\ PfUnchanged

\* the blob is written by the encoder of the legacy test
EncodeLegacy ==
  /\ pf.op = "offsets"
  /\ ~pf.applied
  /\ pf' = [pf EXCEPT !.op = "legacy", !.out = LegacyPack(pf.arg), !.applied = TRUE]
  /\ PfUnchanged

\* the stored blob loses its last byte: up to three bytes of the last offset
TruncateBlob ==
  /\ pf.op \in {"packed", "legacy"}
  /\ pf.out # <<>>
  /\ Len(pf.out) > 4 * Len(pf.arg) - 3
  /\ pf' = [pf EXCEPT !.out = SubSeq(pf.out, 1, Len(pf.out) - 1)]
  /\ PfUnchanged

NextCodec == Encode \/ EncodeLegacy \/ TruncateBlob

SpecCodec == InitCodec /\ [][NextCodec]_vars

\* ------------------------------------------------------------------------
\* tokenize on its own
\* ------------------------------------------------------------------------
MaxTextLen == 3

TextChars == {"a", "JA", " ", "LF"}

TextStrings == UNION {[1..k -> TextChars] : k \in 0..MaxTextLen}

IsBlankMorpheme(m) == m.surface \in {<<" ">>, <<"LF">>}

\* the morphemes the tokenizer returns when it passes over blanks
WithoutBlanks(ms) == SelectSeq(ms, LAMBDA m : ~IsBlankMorpheme(m))

InitTokenize ==
  /\ PfRest
  /\ \E text \in TextStrings : pf = [PfNone EXCEPT !.op = "text", !.arg = text]

\* tokenize(text) with a tokenizer whose morphemes cover the text
Tokenize ==
  /\ pf.op = "text"
  /\ ~pf.applied
  /\ pf' = [pf EXCEPT !.op = "tokens", !.out = tokenize(pf.arg), !.applied = TRUE]
  /\ PfUnchanged

\* tokenize(text) with a tokenizer that returns no morpheme for a blank: the
\* loop adds the bytes of the skipped text
TokenizeSkipping ==
  /\ pf.op = "text"
  /\ ~pf.applied
  /\ pf' = [pf EXCEPT !.op = "tokens_skipping",
                       !.out = TokenizeLoop(pf.arg, WithoutBlanks(Morphemes(pf.arg)),
                                            0, 0, <<>>),
                       !.applied = TRUE]
  /\ PfUnchanged

NextTokenize == Tokenize \/ TokenizeSkipping

SpecTokenize == InitTokenize /\ [][NextTokenize]_vars

\* ------------------------------------------------------------------------
\* list_indexed_files
\* ------------------------------------------------------------------------
\* the byte of a character of a path
ByteOfChar(c) ==
  CASE c = "." -> 46 [] c = "/" -> 47 [] c = "_" -> 95 [] c = "a" -> 97
    [] c = "b" -> 98 [] c = "e" -> 101 [] c = "h" -> 104 [] c = "o" -> 111
    [] c = "w" -> 119 [] c = "x" -> 120

\* the BINARY collation of ORDER BY path: bytes compared left to right, a
\* proper prefix first
RECURSIVE PathLess(_, _)
PathLess(p, q) ==
  IF q = <<>> THEN FALSE
  ELSE IF p = <<>> THEN TRUE
  ELSE IF Head(p) = Head(q) THEN PathLess(Tail(p), Tail(q))
  ELSE ByteOfChar(Head(p)) < ByteOfChar(Head(q))

\* SELECT path FROM documents_fts ORDER BY path: one entry for every row
RECURSIVE OrderByPath(_)
OrderByPath(bag) ==
  IF BagToSet(bag) = {} THEN <<>>
  ELSE LET first == CHOOSE r \in BagToSet(bag) :
                      \A x \in BagToSet(bag) : ~PathLess(x.path, r.path)
           rest  == [x \in BagToSet(bag) \ {first} |-> bag[x]]
       IN  [i \in 1..bag[first] |-> first.path] \o OrderByPath(rest)

\* OFFSET ?: a negative offset is offset 0
Skipped(rows, offset) ==
  IF offset <= 0 THEN rows
  ELSE IF offset >= Len(rows) THEN <<>>
  ELSE SubSeq(rows, offset + 1, Len(rows))

\* the query without its OFFSET
list_indexed_files_NoOffset(limit, offset) == Limited(OrderByPath(fts), limit)

\* SELECT path FROM documents_fts ORDER BY path LIMIT ? OFFSET ?
list_indexed_files(limit, offset) ==
  Limited(Skipped(OrderByPath(fts), offset), limit)

ListLimits == {-1, 0, 1, 2}

ListOffsets == {-1, 0, 1, 3}

\* the stores that hold one document row for each file of a set of files
IndexedBags == {SetToBag({ExpectedDoc(f, TextA) : f \in fset}) : fset \in SUBSET Files}

\* some files hold the text "a" and have been indexed
InitIndexed ==
  /\ fts \in IndexedBags
  /\ fs = [f \in Files |-> IF f \in DocPathsOf(fts) THEN Version(TextA, 1) ELSE NoFile]
  /\ ignorefile = FALSE
  /\ meta = [f \in DocPathsOf(fts) |-> ExpectedMeta(1, 1, TextA)]
  /\ clock = 0
  /\ calls = 0
  /\ fsops = 0
  /\ scan = ScanIdle
  /\ upd = UpdIdle
  /\ delres = DelNone
  /\ hist = HistNone
  /\ vp = VpNone
  /\ sr = SrNone
  /\ schema = SchemaCurrent
  /\ bw = BwNone
  /\ wt = WtNone
  /\ pf = PfNone
  /\ ev = EvNone

\* a first call list_indexed_files(limit, offset)
ListFirst(limit, offset) ==
  /\ pf.op = "none"
  /\ pf' = [op |-> "list", arg |-> [limit |-> limit, offset |-> offset],
            out |-> <<list_indexed_files(limit, offset)>>, applied |-> TRUE]
  /\ PfUnchanged

\* the caller asks for the page after a page that was not empty
ListNext ==
  /\ pf.op = "list"
  /\ pf.arg.limit >= 1
  /\ pf.out[Len(pf.out)] # <<>>
  /\ pf' = [pf EXCEPT !.out = Append(@, list_indexed_files(pf.arg.limit,
                                   pf.arg.offset + Len(pf.out) * pf.arg.limit))]
  /\ PfUnchanged

NextList ==
  \/ \E limit \in ListLimits : \E offset \in ListOffsets : ListFirst(limit, offset)
  \/ ListNext

SpecList == InitIndexed /\ [][NextList]_vars

\* ------------------------------------------------------------------------
\* search_documents with path_filter and extensions
\* ------------------------------------------------------------------------
\* if not ext.startswith("."): ext = "." + ext
NormExt(ext) == IF ext # <<>> /\ ext[1] = "." THEN ext ELSE <<".">> \o ext

\* AND (path LIKE ? OR path LIKE ? ...) with "%{ext}" for each extension
ExtPredicate(extensions, path) ==
  \E i \in 1..Len(extensions) : Like(path, <<"%">> \o NormExt(extensions[i]))

\* path_filter = None and extensions = None
NoFilter == <<>>

\* search_documents(query, limit, path_filter, extensions).  A query without
\* tokens returns the sentinel before path_filter is validated; a
\* path_filter outside the working directory raises ValueError.
SearchFiltered(query, limit, by_path, path_filter, extensions) ==
  /\ NoResultPending
  /\ LET expr    == fts_query(query)
         v       == validate_path(path_filter)
         Keep(r) == /\ Matches(r.tokens, expr)
                    /\ path_filter = NoFilter \/ RootPredicate(v.value, r.path)
                    /\ extensions = NoFilter \/ ExtPredicate(extensions, r.path)
         ordered == RowsInOrder({r \in BagToSet(fts) : Keep(r)}, FileOrder)
         rows    == Limited(IF by_path THEN ordered ELSE Reverse(ordered), limit)
         results == [i \in 1..Len(rows) |-> ResultFor(rows[i], expr)]
         call    == [pc |-> "done", query |-> query, limit |-> limit,
                     path_filter |-> path_filter, extensions |-> extensions,
                     raised |-> FALSE, results |-> <<>>]
     IN  sr' = IF tokenize(query) = <<>>
               THEN [call EXCEPT !.results = <<NoMatches>>]
               ELSE IF path_filter # NoFilter /\ v.raised
                    THEN [call EXCEPT !.raised = TRUE]
                    ELSE [call EXCEPT !.results = IF results = <<>> THEN <<NoMatches>>
                                                  ELSE results]
  /\ UNCHANGED <<fs, ignorefile, fts, meta, clock, calls, fsops, scan, upd, delres,
                 hist, vp, aux>>

FilterQueries == {<<"a">>, <<>>}

FilterLimits == {-1, 1}

PathFilters == {NoFilter, Cwd, DirA, DirAB, DirUp, DirWc, PathOutside}

ExtensionLists ==
  {NoFilter, << <<".", "h">> >>, << <<"h">> >>, << <<"x">> >>, << <<"_">> >>,
   << <<"x">>, <<".", "h">> >>}

NextFilter ==
  \/ \E query \in FilterQueries : \E limit \in FilterLimits : \E by_path \in BOOLEAN :
       \E path_filter \in PathFilters : \E extensions \in ExtensionLists :
         SearchFiltered(query, limit, by_path, path_filter, extensions)
  \/ Return

SpecFilter == InitIndexed /\ [][NextFilter]_vars

\* ------------------------------------------------------------------------
\* Scans and single-file updates over a tree that does not change
\* ------------------------------------------------------------------------
\* every file of the tree holds the text "a" from the start on; nothing is
\* indexed yet
InitStable ==
  /\ fs = [f \in Files |-> Version(TextA, 1)]
  /\ ignorefile \in BOOLEAN
  /\ fts = EmptyBag
  /\ meta = EmptyMeta
  /\ clock = 1
  /\ calls = 0
  /\ fsops = 0
  /\ scan = ScanIdle
  /\ upd = UpdIdle
  /\ delres = DelNone
  /\ hist = HistNone
  /\ vp = VpNone
  /\ sr = SrNone
  /\ AuxInit

StableScanInputs == {DirA, DirWc}

StableUpdInputs == {FileX, FileS}

NextStable ==
  \/ \E input \in StableUpdInputs : UpdStart(input)
  \/ UpdRead
  \/ UpdStat
  \/ \E input \in StableScanInputs : ScanStart(input)
  \/ ScanStat
  \/ ScanApply
  \/ ScanCleanup
  \/ Return

SpecStable == InitStable /\ [][NextStable]_vars

\* ------------------------------------------------------------------------
\* FTSHandler: the events of a watched root
\* ------------------------------------------------------------------------
\* ev.root_path and ev.ignore_spec are the handler's fields, ev.alive says
\* that the Observer thread is running, ev.queue holds the events delivered
\* and not yet dispatched, ev.event is the event being handled and ev.k the
\* position of the handler in the paths of that event (0: no event).
\* History: ev.invoked lists the paths _update_or_remove_file returned for
\* during the event, ev.handled the events the handler is through with; the
\* field fresh of an event says that the tree did not change since the event
\* was delivered.

\* At most MaxEvents events are delivered to the handler.
MaxEvents == 2

\* a handler that ignores nothing
should_ignore_Never(ignore_spec, path) == FALSE

\* FTSHandler._should_ignore
should_ignore(ignore_spec, path) == ignore_spec /\ MatchesIgnore(path)

\* on_moved passes the source only
EventPaths_SourceOnly(event) == <<event.src>>

\* the paths an on_* method passes to _update_or_remove_file, in order
EventPaths(event) ==
  IF event.type = "moved" THEN <<event.src, event.dest>> ELSE <<event.src>>

\* the calls of _update_or_remove_file that the events delivered and not yet
\* handled can still make
RECURSIVE CallsOf(_)
CallsOf(events) ==
  IF events = <<>> THEN 0
  ELSE (IF Head(events).is_directory THEN 0 ELSE Len(EventPaths(Head(events))))
       + CallsOf(Tail(events))

EventsPending == ev.queue \o (IF ev.k = 0 THEN <<>> ELSE <<ev.event>>)

\* the watcher delivers an event; the events delivered before it are no
\* longer fresh when the tree changed
Delivered(event, tree_changed) ==
  LET Stale(e) == IF tree_changed THEN [e EXCEPT !.fresh = FALSE] ELSE e
  IN  [ev EXCEPT !.queue = Append([i \in 1..Len(ev.queue) |-> Stale(ev.queue[i])],
                                  event),
                 !.event = IF ev.k = 0 THEN @ ELSE Stale(@)]

CanDeliver(event) ==
  /\ NoResultPending
  /\ Len(ev.handled) + Len(EventsPending) < MaxEvents
  /\ calls + CallsOf(EventsPending) + CallsOf(<<event>>) <= MaxCalls

FileEvent(type, src, dest) ==
  [type |-> type, src |-> src, dest |-> dest, is_directory |-> FALSE, fresh |-> TRUE]

EvUnchanged ==
  UNCHANGED <<ignorefile, fts, meta, clock, calls, scan, delres, hist, vp, sr,
              schema, bw, wt, pf>>

\* a file under the root is created or rewritten
FsEvWrite(f, version) ==
  /\ UnderRoot(ev.root_path, f)
  /\ fs[f] # version
  /\ LET event == FileEvent(IF fs[f].exists THEN "modified" ELSE "created", f, <<>>)
     IN  /\ CanDeliver(event)
         /\ ev' = Delivered(event, TRUE)
  /\ fs' = [fs EXCEPT ![f] = version]
  /\ fsops' = fsops + 1
  /\ upd' = UpdDisturbed
  /\ EvUnchanged

\* a file under the root is removed
FsEvRemove(f) ==
  /\ UnderRoot(ev.root_path, f)
  /\ fs[f].exists
  /\ LET event == FileEvent("deleted", f, <<>>)
     IN  /\ CanDeliver(event)
         /\ ev' = Delivered(event, TRUE)
  /\ fs' = [fs EXCEPT ![f] = NoFile]
  /\ fsops' = fsops + 1
  /\ upd' = UpdDisturbed
  /\ EvUnchanged

\* a file is renamed inside the root; the name it takes may be in use
FsEvMove(f, g) ==
  /\ UnderRoot(ev.root_path, f)
  /\ UnderRoot(ev.root_path, g)
  /\ f # g
  /\ fs[f].exists
  /\ LET event == FileEvent("moved", f, g)
     IN  /\ CanDeliver(event)
         /\ ev' = Delivered(event, TRUE)
  /\ fs' = [fs EXCEPT ![f] = NoFile, ![g] = fs[f]]
  /\ fsops' = fsops + 1
  /\ upd' = UpdDisturbed
  /\ EvUnchanged

\* the watcher reports a change of a directory under the root
EvDirectory ==
  /\ UnderRoot(ev.root_path, DirA)
  /\ LET event == [type |-> "modified", src |-> DirA, dest |-> <<>>,
                   is_directory |-> TRUE, fresh |-> TRUE]
     IN  /\ CanDeliver(event)
         /\ ev' = Delivered(event, FALSE)
  /\ UNCHANGED <<fs, fsops, upd>>
  /\ EvUnchanged

\* the handler is through with its event
EventDone(invoked) ==
  [ev EXCEPT !.k = 0, !.event = NoEvent, !.invoked = <<>>,
             !.handled = Append(@, [event |-> ev.event, invoked |-> invoked])]

\* the Observer thread takes the next event and calls on_moved, on_created,
\* on_deleted or on_modified: nothing is done for a directory
EvDispatch ==
  /\ NoResultPending
  /\ ev.alive
  /\ ev.k = 0
  /\ ev.queue # <<>>
  /\ LET event == Head(ev.queue)
         taken == [ev EXCEPT !.queue = Tail(@), !.event = event]
     IN  IF event.is_directory
         THEN ev' = [taken EXCEPT !.event = NoEvent,
                                  !.handled = Append(@, [event |-> event,
                                                         invoked |-> <<>>])]
         ELSE ev' = [taken EXCEPT !.k = 1]
  /\ UNCHANGED <<fs, fsops, upd>>
  /\ EvUnchanged

\* the path the handler is at
EventPath == EventPaths(ev.event)[ev.k]

\* the handler moves on from the path it is at
EventNext(invoked) ==
  IF ev.k < Len(EventPaths(ev.event))
  THEN [ev EXCEPT !.k = @ + 1, !.invoked = invoked]
  ELSE EventDone(invoked)

\* if not self._should_ignore(path) is false: the path is passed over
EvIgnore ==
  /\ NoResultPending
  /\ ev.alive
  /\ ev.k > 0
  /\ upd.pc = "idle"
  /\ should_ignore(ev.ignore_spec, EventPath)
  /\ ev' = EventNext(ev.invoked)
  /\ UNCHANGED <<fs, fsops, upd>>
  /\ EvUnchanged

\* _update_or_remove_file(path) up to the test of os.path.exists
EvInvoke ==
  /\ ev.alive
  /\ ev.k > 0
  /\ ~should_ignore(ev.ignore_spec, EventPath)
  /\ UpdStart(EventPath)

\* get_db() or the DELETE of the branch for a missing file raises
\* sqlite3.Error: both lie outside the try block, no on_* method catches,
\* and the exception ends the Observer thread that runs the handler
EvInvokeRaises ==
  /\ NoResultPending
  /\ ev.alive
  /\ ev.k > 0
  /\ upd.pc = "idle"
  /\ calls < MaxCalls
  /\ ~should_ignore(ev.ignore_spec, EventPath)
  /\ ev' = [ev EXCEPT !.alive = FALSE]
  /\ clock' = clock + 1
  /\ calls' = calls + 1
  /\ UNCHANGED <<fs, fsops, upd, ignorefile, fts, meta, scan, delres, hist, vp, sr,
                 schema, bw, wt, pf>>

\* _update_or_remove_file returns to the on_* method
EvReturn ==
  /\ ev.k > 0
  /\ upd.pc = "done"
  /\ upd' = UpdIdle
  /\ ev' = EventNext(Append(ev.invoked, upd.path))
  /\ UNCHANGED <<fs, fsops>>
  /\ EvUnchanged

\* the roots watch_directory has made a handler for
EventRoots == {DirA, Cwd}

\* watch_directory(root_path) has returned "Started watching": the handler
\* holds the ignore rules of the root as they were then
InitEvents ==
  /\ \E present \in {{}, {FileX}} :
       fs = [f \in Files |-> IF f \in present THEN Version(TextA, 1) ELSE NoFile]
  /\ ignorefile \in BOOLEAN
  /\ fts = EmptyBag
  /\ meta = EmptyMeta
  /\ clock = 0
  /\ calls = 0
  /\ fsops = 0
  /\ scan = ScanIdle
  /\ upd = UpdIdle
  /\ delres = DelNone
  /\ hist = HistNone
  /\ vp = VpNone
  /\ sr = SrNone
  /\ schema = SchemaCurrent
  /\ bw = BwNone
  /\ wt = WtNone
  /\ pf = PfNone
  /\ \E root_path \in EventRoots :
       /\ ignorefile => root_path = DirA
       /\ ev = [EvNone EXCEPT !.root_path = root_path,
                              !.ignore_spec = LoadIgnoreSpec(root_path),
                              !.alive = TRUE]

NextEvents ==
  \/ \E f \in Files : \E version \in VersionsOf(f) : FsEvWrite(f, version)
  \/ \E f \in Files : FsEvRemove(f)
  \/ \E f \in Files : \E g \in Files : FsEvMove(f, g)
  \/ EvDirectory
  \/ EvDispatch
  \/ EvIgnore
  \/ EvInvoke
  \/ EvInvokeRaises
  \/ UpdRead
  \/ UpdStat
  \/ EvReturn

SpecEvents == InitEvents /\ [][NextEvents]_vars

\* ------------------------------------------------------------------------
\* validate_path on its own, applied to every short path string
\* ------------------------------------------------------------------------
MaxPathLen == 4

PathChars == {"/", ".", "w", "e"}

PathStrings == UNION {[1..k -> PathChars] : k \in 0..MaxPathLen}

InitPath ==
  /\ fs = [f \in Files |-> NoFile]
  /\ ignorefile = FALSE
  /\ fts = EmptyBag
  /\ meta = EmptyMeta
  /\ clock = 0
  /\ calls = 0
  /\ fsops = 0
  /\ scan = ScanIdle
  /\ upd = UpdIdle
  /\ delres = DelNone
  /\ hist = HistNone
  /\ \E path \in PathStrings : vp = [VpNone EXCEPT !.input = path]
  /\ sr = SrNone
  /\ AuxInit

ValidatePath ==
  /\ ~vp.applied
  /\ LET v == validate_path(vp.input) IN
     vp' = [input |-> vp.input, applied |-> TRUE,
            raised |-> v.raised, value |-> v.value]
  /\ UNCHANGED <<fs, ignorefile, fts, meta, clock, calls, fsops, scan, upd,
                 delres, hist, sr, aux>>

NextPath == ValidatePath

SpecPath == InitPath /\ [][NextPath]_vars

\* ------------------------------------------------------------------------
\* Properties
\* ------------------------------------------------------------------------
\* the rows of documents_fts for a path, with their multiplicities
DocsAt(bag, path) == [r \in RowsOf(bag, path) |-> bag[r]]

\* the row of documents_meta for a path, as a function on {path} or on {}
MetaAt(m, path) == [p \in (DOMAIN m) \cap {path} |-> m[p]]

\* C4: in every committed state a path has a metadata record if and only if
\* it has a document record.
C4_MetaIffDoc == DOMAIN meta = DocPathsOf(fts)

\* C5: documents_fts holds at most one row per path, and once an update of a
\* path has returned "Updated" the only row of the path is the one holding
\* the content the update read.
C5_PathIsKey ==
  /\ \A path \in DocPathsOf(fts) : CountRows(fts, {path}) = 1
  /\ (upd.pc = "done" /\ upd.result = "Updated") =>
       DocsAt(fts, upd.path) =
         SetToBag({DocRow(upd.path, upd.content, JoinSurfaces(tokenize(upd.content)))})

\* a path that had a row with other content has been re-indexed
C5_Witness ==
  /\ upd.pc = "done"
  /\ upd.result = "Updated"
  /\ upd.replaced
  /\ CountRows(fts, {upd.path}) = 1

\* C8: a single-file update that returns "Failed to update" or "Skipped
\* binary/non-utf8 file" commits no change to the records of its path.
C8_FailedUpdateIsAtomic ==
  [][(/\ upd.pc # "done"
      /\ upd'.pc = "done"
      /\ upd'.result \in {"Failed", "Skipped"})
     => /\ DocsAt(fts', upd'.path) = DocsAt(fts, upd'.path)
        /\ MetaAt(meta', upd'.path) = MetaAt(meta, upd'.path)]_vars

\* C9: no exposed operation raises to its caller.
C9_NoOperationRaises ==
  /\ scan.result # "raise"
  /\ upd.result # "raise"
  /\ ~delres.raised

\* C10: validate_path returns the absolute form of every path without
\* raising, also for paths outside the working directory.
C10_ValidatePathTotal ==
  vp.applied => (~vp.raised /\ vp.value = Abspath(vp.input))

\* C6: delete_index(root) removes exactly the records whose path is root or
\* lies below root at a path-separator boundary, for every root string.
C6_DeleteIndexFrame ==
  [][\A input \in DeleteInputs :
       (DeleteIndex(input) /\ ~validate_path(input).raised) =>
         LET root_path == validate_path(input).value
             below     == {p \in Files : UnderRoot(root_path, p)}
         IN  /\ fts' = DeleteDocs(fts, below)
             /\ meta' = DeleteMeta(meta, below)]_vars

ScanDoneQuiet == scan.pc = "done" /\ scan.result = "Indexed" /\ scan.quiet

\* the scan that has returned followed an undisturbed scan of the same root,
\* and between the two nothing happened but removals of files
SecondScanDone == ScanDoneQuiet /\ scan.chk /\ hist.valid

\* the files below the root that are not hidden and not ignored by its rules
Eligible(root_path) ==
  {f \in Files : /\ Exists(f)
                 /\ UnderRoot(root_path, f)
                 /\ ~IsHidden(f)
                 /\ ~(LoadIgnoreSpec(root_path) /\ MatchesIgnore(f))}

\* ... and that are readable as UTF-8 text
Indexable(root_path) == {f \in Eligible(root_path) : Decodable(fs[f].data)}

DocPathsUnder(root_path) == {p \in DocPathsOf(fts) : UnderRoot(root_path, p)}

\* C11: index_directory on a root that does not exist answers with a failure
\* message, not with the "Indexed ... Skipped ... Deleted ..." report, and does
\* not raise.
C11_MissingRootIsReported ==
  (scan.pc = "done" /\ scan.quiet /\ validate_path(scan.root).raised = FALSE
     /\ scan.result # "raise" /\ ~os_path_exists(scan.root))
    => scan.result \notin {"Indexed", "raise"}

\* C12: a file that fails on its own does not abort the walk.  When an
\* undisturbed scan has reported, every file of the walk was visited, every
\* eligible file that is valid UTF-8 was processed in this session, the
\* updated and skipped counts add up to the files processed, and an eligible
\* file that was not processed is one that failed to decode: it is in neither
\* count and has no metadata record.
C12_FileFailureDoesNotAbortWalk ==
  ScanDoneQuiet =>
    LET elig      == Eligible(scan.root)
        processed == {f \in elig : /\ f \in DOMAIN meta
                                   /\ meta[f].scanned_at = scan.time}
    IN  /\ scan.todo = <<>>
        /\ Indexable(scan.root) \subseteq processed
        /\ scan.u + scan.s = Cardinality(processed)
        /\ \A f \in elig \ processed :
             ~Decodable(fs[f].data) /\ f \notin DOMAIN meta

\* the walk met a file that is not valid UTF-8 and went on to index the file
\* after it
C12_Witness ==
  /\ ScanDoneQuiet
  /\ scan.root = Cwd
  /\ Exists(FileX)
  /\ ~Decodable(fs[FileX].data)
  /\ FileX \notin DOMAIN meta
  /\ FileS \in DOMAIN meta
  /\ meta[FileS].scanned_at = scan.time
  /\ scan.u = 1
  /\ scan.s = 0

\* C13: when init_db finds documents_fts holding rows and no documents_meta
\* table, it discards every row of documents_fts.
C13_LegacyRowsDiscarded ==
  [][(/\ schema.pc = "idle"
      /\ schema'.pc = "done"
      /\ schema.fts_table
      /\ ~schema.meta_table
      /\ fts # EmptyBag)
     => fts' = EmptyBag]_vars

\* C14: at every point of a directory scan the open transaction holds at
\* most BATCH_SIZE file updates and the writes of at most BATCH_SIZE files,
\* and no transaction is open when the walk moves on to its next file or
\* ends, so that none stays open for the whole walk.
C14_UncommittedAtMostOneBatch ==
  /\ bw.txn.updates <= BATCH_SIZE
  /\ bw.txn.files <= BATCH_SIZE
  /\ bw.pc \in {"file", "batch", "done"} => bw.txn = NoTxn

\* more than a batch of files has been updated and skipped, and the walk is
\* inside the transaction of one more file
C14_Witness ==
  /\ bw.pc = "with"
  /\ bw.updated_count >= BATCH_SIZE
  /\ bw.skipped_count >= 1
  /\ bw.txn.open
  /\ bw.txn.updates = 1

\* the number of handlers the watcher holds for the root
RECURSIVE CountIn(_, _)
CountIn(seq, x) ==
  IF seq = <<>> THEN 0
  ELSE (IF Head(seq) = x THEN 1 ELSE 0) + CountIn(Tail(seq), x)

\* C15: when watch_directory(root) has answered "Started watching" and the
\* next thing that happens is a second watch_directory(root), the second call
\* answers "Already watching" and changes nothing: WATCHED_PATHS, the
\* Observer instances and their subscriptions are as before.  A call that
\* answers "Started watching" leaves the root registered and subscribed on
\* the running Observer.
C15_WatchDedup ==
  \A c \in Callers :
    LET call == wt.call[c] IN
    (call.pc = "done" /\ call.quiet) =>
      /\ (/\ call.follows.quiet
          /\ call.follows.result = "Started"
          /\ call.follows.root = call.root)
         => /\ call.result = "Already"
            /\ wt.watched = call.pre.watched
            /\ wt.insts = call.pre.insts
            /\ wt.observer = call.pre.observer
            /\ CountIn(wt.insts[wt.observer].handlers, call.root) >= 1
      /\ call.result = "Started"
         => /\ call.root \in wt.watched
            /\ is_alive(wt.insts[wt.observer])
            /\ CountIn(wt.insts[wt.observer].handlers, call.root) >= 1

\* the same root was registered twice in a row
C15_Witness ==
  \E c \in Callers :
    /\ wt.call[c].pc = "done"
    /\ wt.call[c].quiet
    /\ wt.call[c].follows.quiet
    /\ wt.call[c].follows.result = "Started"
    /\ wt.call[c].follows.root = wt.call[c].root
    /\ wt.call[c].result = "Already"

\* C16: an Observer instance only moves unstarted -> running -> stopped,
\* start() is never invoked on an instance that has stopped, and the instance
\* that replaces a dead one is a fresh, unstarted one.
C16_WatcherLifecycle ==
  [][/\ ~wt'.start_on_stopped
     /\ \A i \in DOMAIN wt.insts :
          \/ wt'.insts[i].state = wt.insts[i].state
          \/ <<wt.insts[i].state, wt'.insts[i].state>> \in
               {<<"unstarted", "running">>, <<"running", "stopped">>}
     /\ wt'.observer # wt.observer =>
          /\ ~is_alive(wt.insts[wt.observer])
          /\ wt'.insts[wt'.observer] = NewObserver]_vars

\* ---- search_documents ----
SearchDone == sr.pc = "done"

\* the rows of documents_fts that match the query of the search that returned
SearchMatches == MatchingRows(fts_query(sr.query))

Hits == {i \in 1..Len(sr.results) : sr.results[i].kind = "hit"}

\* the row of documents_fts a result entry was made from
RowOfHit(i) == CHOOSE r \in BagToSet(fts) : r.path = sr.results[i].path

MinOf(a, b) == IF a <= b THEN a ELSE b

\* C17 as stated: the result is never empty; it is ["No matches found."]
\* when no row matches, and otherwise between 1 and limit entries, none of
\* them the sentinel.
C17_NeverEmpty ==
  SearchDone =>
    LET n == Cardinality(SearchMatches) IN
    /\ sr.results # <<>>
    /\ n = 0 => sr.results = <<NoMatches>>
    /\ n > 0 => /\ 1 <= Len(sr.results)
                /\ Len(sr.results) <= sr.limit
                /\ Hits = 1..Len(sr.results)

\* C17 amended: the result is never empty; it is ["No matches found."] when
\* no row matches or limit is 0; otherwise every entry is a result, there
\* are min(limit, matching rows) of them for limit >= 1 (so between 1 and
\* limit) and one per matching row for a negative limit.
C17_NeverEmptyForPositiveLimit ==
  SearchDone =>
    LET n == Cardinality(SearchMatches) IN
    /\ sr.results # <<>>
    /\ (n = 0 \/ sr.limit = 0) => sr.results = <<NoMatches>>
    /\ (n > 0 /\ sr.limit # 0) =>
         /\ Hits = 1..Len(sr.results)
         /\ Len(sr.results) = IF sr.limit < 0 THEN n ELSE MinOf(n, sr.limit)
         /\ sr.limit >= 1 => (1 <= Len(sr.results) /\ Len(sr.results) <= sr.limit)

\* two rows match and limit 1 returns one result
C17_Witness ==
  /\ SearchDone
  /\ sr.limit = 1
  /\ Cardinality(SearchMatches) = 2
  /\ Len(sr.results) = 1
  /\ sr.results[1].kind = "hit"

\* the file is as it was when its records were written
UnchangedSinceIndexing(path) ==
  /\ Exists(path)
  /\ DocsAt(fts, path) = SetToBag({ExpectedDoc(path, fs[path].data)})
  /\ path \in DOMAIN meta
  /\ meta[path].mtime = fs[path].mtime
  /\ meta[path].token_locations = PackOffsets(tokenize(ReadText(fs[path].data)))

\* the morphemes of the file's own characters that are instances of a phrase
\* of the query
MatchingMorphemes(data, query) ==
  LET ms == Morphemes(data)
      qp == QueryPhrases(fts_query(query))
  IN  {i \in 1..Len(ms) : \E k \in 1..Len(qp) :
                             qp[k] # <<>> /\ FtsTerms(ms[i].surface) = qp[k]}

\* 1 + the newline bytes before the first matching token of the file
LineOfFirstMatch(data, query) ==
  LET ms    == Morphemes(data)
      found == MatchingMorphemes(data, query)
      first == CHOOSE i \in found : \A j \in found : i <= j
  IN  1 + Count(SubSeq(data, 1, ms[first].begin), "LF")

\* C18: for a file unchanged since indexing, the line of a result is 1 plus
\* the number of newline bytes before the first matching token in the file,
\* for multi-byte and for CR LF content alike.
C18_LineOfFirstMatch ==
  SearchDone =>
    \A i \in Hits :
      LET path == sr.results[i].path IN
      UnchangedSinceIndexing(path) =>
        sr.results[i].line = LineOfFirstMatch(fs[path].data, sr.query)

\* the token index search derives for a row
TokenIndexOf(row, query) ==
  LET h == highlight(row.tokens, fts_query(query))
  IN  Count(SubSeq(h, 1, Find(h, MatchOpen)), " ")

\* C19: a result whose offset blob is missing, whose token index lies
\* outside the blob, or whose file is gone reports line 1, and the search
\* returns a result for every matching row that the limit admits.
C19_ResolutionFallsBack ==
  SearchDone =>
    LET n == Cardinality(SearchMatches) IN
    /\ \A i \in Hits :
         LET path == sr.results[i].path
             row  == RowOfHit(i)
         IN  (\/ path \notin DOMAIN meta
              \/ meta[path].token_locations = <<>>
              \/ TokenIndexOf(row, sr.query) * 4 + 4 > Len(meta[path].token_locations)
              \/ ~Exists(path))
             => sr.results[i].line = 1
    /\ (n > 0 /\ sr.limit # 0) =>
         /\ {sr.results[i].path : i \in Hits} \subseteq {r.path : r \in SearchMatches}
         /\ Cardinality({sr.results[i].path : i \in Hits}) =
              (IF sr.limit < 0 THEN n ELSE MinOf(n, sr.limit))

\* a file indexed with its match on the second line has been removed, and
\* the search still returns it, at line 1
C19_Witness ==
  /\ SearchDone
  /\ \E i \in Hits :
       /\ sr.results[i].path \in DOMAIN meta
       /\ ~Exists(sr.results[i].path)
       /\ RowOfHit(i).content = ReadText(TextLines)
       /\ sr.results[i].line = 1

\* C35: for every result, the token index search derives by counting the
\* blanks before the first marker is the position (from 0) of the first
\* matching token in the token sequence that was indexed, also when a token
\* of the sequence is a blank.
C35_TokenIndexIsPosition ==
  SearchDone =>
    \A i \in Hits :
      LET row   == RowOfHit(i)
          found == MatchingMorphemes(row.content, sr.query)
      IN  (found # {} /\ row.tokens = JoinSurfaces(tokenize(row.content))) =>
            TokenIndexOf(row, sr.query) + 1 =
              (CHOOSE k \in found : \A j \in found : k <= j)

\* the characters at positions k .. k + Len(sub) - 1 of str are sub
HasAt(str, k, sub) ==
  /\ k >= 1
  /\ k + Len(sub) - 1 <= Len(str)
  /\ SubSeq(str, k, k + Len(sub) - 1) = sub

Entities == {EscapeChar(c) : c \in {"&", "<", ">", "\"", "'"}}

\* C20: in every snippet a markup character stands only in an HTML entity
\* or in the highlight markup <b> and </b>: no quote, no bare ampersand, and
\* no angle bracket that content put there.
C20_SnippetIsEscaped ==
  SearchDone =>
    \A i \in Hits :
      LET s == sr.results[i].snippet IN
      \A k \in 1..Len(s) :
        /\ s[k] \notin {"\"", "'"}
        /\ s[k] = "&" => \E e \in Entities : HasAt(s, k, e)
        /\ s[k] = "<" => (HasAt(s, k, BoldOpen) \/ HasAt(s, k, BoldClose))
        /\ s[k] = ">" => (HasAt(s, k - 2, BoldOpen) \/ HasAt(s, k - 3, BoldClose))

\* a file holding <a>&'" was found, and its snippet shows the entities
C20_Witness ==
  /\ SearchDone
  /\ \E i \in Hits :
       /\ RowOfHit(i).content = TextScript
       /\ Find(sr.results[i].snippet, <<"&", "l", "t", ";", "a", "&", "g", "t", ";">>) = 0

\* ---- the MATCH expression ----
\* the items of a MATCH expression as FTS5 reads it: a string literal (""
\* inside it is one quote), a character outside a literal (bareword,
\* operator or wildcard), or a literal that the end of the expression cuts
RECURSIVE ExprItems(_, _, _, _)
ExprItems(expr, i, cur, acc) ==
  IF i > Len(expr)
  THEN IF cur = <<>> THEN acc
       ELSE Append(acc, [kind |-> "unterminated", text |-> cur[2]])
  ELSE IF cur = <<>>
       THEN IF expr[i] = "\"" THEN ExprItems(expr, i + 1, <<"lit", <<>>>>, acc)
            ELSE IF expr[i] = " " THEN ExprItems(expr, i + 1, cur, acc)
            ELSE ExprItems(expr, i + 1, cur,
                           Append(acc, [kind |-> "bare", text |-> <<expr[i]>>]))
       ELSE IF expr[i] = "\""
            THEN IF i < Len(expr) /\ expr[i + 1] = "\""
                 THEN ExprItems(expr, i + 2, <<"lit", Append(cur[2], "\"")>>, acc)
                 ELSE ExprItems(expr, i + 1, <<>>,
                                Append(acc, [kind |-> "string", text |-> cur[2]]))
            ELSE ExprItems(expr, i + 1, <<"lit", Append(cur[2], expr[i])>>, acc)

\* C21: the MATCH expression of a query reads as exactly one string literal
\* per token, in order, each literal being the token's surface; no quote,
\* operator or wildcard of a token stands outside a literal.
C21_OneLiteralPerToken ==
  (pf.op = "fts_query" /\ pf.applied) =>
    LET toks  == tokenize(pf.arg)
        items == ExprItems(pf.out, 1, <<>>, <<>>)
    IN  /\ Len(items) = Len(toks)
        /\ \A i \in 1..Len(items) :
             /\ items[i].kind = "string"
             /\ items[i].text = toks[i][1]

\* a query with a quote, a wildcard and a word was turned into its expression
C21_Witness ==
  /\ pf.op = "fts_query"
  /\ pf.applied
  /\ pf.arg = <<"\"", "*", "a">>
  /\ pf.out = <<"\"", "\"", "\"", "\"", " ", "\"", "*", "\"", " ", "\"", "a", "\"">>

\* ---- the offset table ----
\* C22: decoding index i of a blob returns the i-th encoded offset whenever
\* its four bytes are in the blob, and no offset when i * 4 + 4 > len(blob);
\* the blob of the legacy encoder decodes like the blob of the current one.
C22_CodecRoundTrip ==
  (pf.op \in {"packed", "legacy"}) =>
    \A i \in 0..(Len(pf.arg) + 1) :
      IF i * 4 + 4 > Len(pf.out)
      THEN DecodeOffset(pf.out, i) = NoOffset
      ELSE DecodeOffset(pf.out, i) = <<pf.arg[i + 1]>>

\* two offsets with different bytes were encoded and the blob is whole
C22_Witness ==
  /\ pf.op = "packed"
  /\ pf.arg = <<256, 2147483647>>
  /\ Len(pf.out) = 8
  /\ DecodeOffset(pf.out, 1) = <<2147483647>>
  /\ DecodeOffset(pf.out, 2) = NoOffset

\* ---- tokenize ----
\* the morphemes the tokenizer gave for the text that was tokenized
MorphemesGiven ==
  IF pf.op = "tokens" THEN Morphemes(pf.arg) ELSE WithoutBlanks(Morphemes(pf.arg))

\* C23: every (surface, offset) pair of tokenize(text) has the bytes of the
\* surface at [offset, offset + len) of the bytes of the text, and offset is
\* the number of bytes of the text before the token.
C23_OffsetsAreByteOffsets ==
  (pf.op \in {"tokens", "tokens_skipping"}) =>
    LET text_bytes == BytesOf(pf.arg)
        ms         == MorphemesGiven
    IN  /\ Len(pf.out) = Len(ms)
        /\ \A i \in 1..Len(pf.out) :
             LET surface_bytes == BytesOf(pf.out[i][1])
                 offset        == pf.out[i][2]
             IN  /\ offset + Len(surface_bytes) <= Len(text_bytes)
                 /\ SubSeq(text_bytes, offset + 1, offset + Len(surface_bytes))
                      = surface_bytes
                 /\ offset = Len(BytesOf(SubSeq(pf.arg, 1, ms[i].begin)))

\* a word after a kana and a skipped blank starts at byte 4
C23_Witness ==
  /\ pf.op = "tokens_skipping"
  /\ pf.arg = <<"JA", " ", "a">>
  /\ pf.out = << <<<<"JA">>, 0>>, <<<<"a">>, 4>> >>

\* C34: the offsets tokenize returns never decrease in token order, and the
\* first offset is 0 only if the first token starts at the first character
\* of the text.
C34_OffsetsAscend ==
  (pf.op \in {"tokens", "tokens_skipping"}) =>
    /\ \A i \in 1..(Len(pf.out) - 1) : pf.out[i][2] <= pf.out[i + 1][2]
    /\ (pf.out # <<>> /\ pf.out[1][2] = 0) => MorphemesGiven[1].begin = 0

\* a text that starts with a blank the tokenizer passes over: the first
\* token is at byte 1, the second after the three bytes of the kana
C34_Witness ==
  /\ pf.op = "tokens_skipping"
  /\ pf.arg = <<" ", "JA", "a">>
  /\ pf.out = << <<<<"JA">>, 1>>, <<<<"a">>, 4>> >>

\* ---- list_indexed_files ----
\* the offset of page k of the calls made
PageOffset(k) == pf.arg.offset + (k - 1) * pf.arg.limit

\* the number of indexed paths that sort before the path
Rank(path) == Cardinality({q \in DocPathsOf(fts) : PathLess(q, path)})

\* the page holds indexed paths in ascending order with none left out
\* between its first and its last
Ascending(page) ==
  /\ \A i \in 1..Len(page) : page[i] \in DocPathsOf(fts)
  /\ \A i \in 1..(Len(page) - 1) : Rank(page[i + 1]) = Rank(page[i]) + 1

RECURSIVE Concat(_)
Concat(pages) == IF pages = <<>> THEN <<>> ELSE Head(pages) \o Concat(Tail(pages))

\* pages from offset 0 on, up to the first empty page: every indexed path
\* is on exactly one page
PagesEnumerate ==
  (pf.arg.offset = 0 /\ pf.arg.limit >= 1 /\ pf.out[Len(pf.out)] = <<>>) =>
    LET all == Concat(pf.out) IN
    /\ Len(all) = Cardinality(DocPathsOf(fts))
    /\ {all[i] : i \in 1..Len(all)} = DocPathsOf(fts)

\* C24 as stated: every page is the slice [offset, offset + limit) of the
\* paths in lexicographic order, so at most limit paths, and the pages from
\* offset 0 on enumerate every indexed path exactly once.
C24_PageIsSlice ==
  pf.op = "list" =>
    /\ \A k \in 1..Len(pf.out) :
         LET page == pf.out[k] IN
         /\ Len(page) <= pf.arg.limit
         /\ Ascending(page)
         /\ page # <<>> => Rank(page[1]) = PageOffset(k)
         /\ page = <<>> =>
              (pf.arg.limit = 0 \/ PageOffset(k) >= Cardinality(DocPathsOf(fts)))
    /\ PagesEnumerate

\* C24 amended: for limit >= 0 and offset >= 0 every page is that slice; a
\* negative limit returns every path from the offset on, a negative offset
\* counts as 0; the pages from offset 0 on enumerate every indexed path
\* exactly once.
C24_PageIsSliceForNaturals ==
  pf.op = "list" =>
    /\ \A k \in 1..Len(pf.out) :
         LET page   == pf.out[k]
             n      == Cardinality(DocPathsOf(fts))
             offset == IF PageOffset(k) < 0 THEN 0 ELSE PageOffset(k)
             room   == IF offset >= n THEN 0 ELSE n - offset
         IN  /\ Ascending(page)
             /\ page # <<>> => Rank(page[1]) = offset
             /\ Len(page) = IF pf.arg.limit < 0 THEN room
                            ELSE MinOf(pf.arg.limit, room)
    /\ PagesEnumerate

\* three indexed files were listed in pages of 2, 1 and 0 paths
C24_Witness ==
  /\ pf.op = "list"
  /\ pf.arg = [limit |-> 2, offset |-> 0]
  /\ pf.out = << <<FileH, FileX>>, <<FileS>>, <<>> >>

\* ---- search_documents with filters ----
\* a search with filters returned without raising
FilteredDone == sr.pc = "done" /\ ~sr.raised /\ tokenize(sr.query) # <<>>

ResultPaths == {sr.results[i].path : i \in Hits}

\* C25: with a path filter every result is the filter path or lies below it
\* at a separator boundary, and without a limit every matching document
\* below the filter that passes the extension filter is returned.
C25_PathFilterConfines ==
  (FilteredDone /\ sr.path_filter # NoFilter) =>
    LET root == validate_path(sr.path_filter).value IN
    /\ \A p \in ResultPaths : UnderRoot(root, p)
    /\ sr.limit < 0 =>
         \A r \in SearchMatches :
           (/\ UnderRoot(root, r.path)
            /\ sr.extensions = NoFilter \/ ExtPredicate(sr.extensions, r.path))
           => r.path \in ResultPaths

\* the path ends with the extension, with its leading dot
EndsWithExt(path, ext) == EndsWith(path, IF ext # <<>> /\ ext[1] = "." THEN ext ELSE <<".">> \o ext)

\* C26: with an extension filter every result path ends with one of the
\* requested extensions, an extension without its dot standing for the one
\* with it.
C26_ExtensionFilterConfines ==
  (FilteredDone /\ sr.extensions # NoFilter) =>
    \A p \in ResultPaths :
      \E i \in 1..Len(sr.extensions) : EndsWithExt(p, sr.extensions[i])

\* ---- scans and updates side by side ----
\* the file is one the scan that returned had to index
ScanShouldHold(f) ==
  /\ Exists(f)
  /\ UnderRoot(scan.root, f)
  /\ ~IsHidden(f)
  /\ ~(scan.ignore /\ MatchesIgnore(f))
  /\ Decodable(fs[f].data)

\* C27: when a scan of root reports its counts, whatever single-file updates
\* ran beside it, every file under root that was readable, non-hidden,
\* non-ignored text all the time has its document and metadata records.
C27_ScanKeepsLiveFiles ==
  (scan.pc = "done" /\ scan.result = "Indexed") =>
    \A f \in Files :
      ScanShouldHold(f) => (f \in DocPathsOf(fts) /\ f \in DOMAIN meta)

\* the metadata paths under the root of the scan that the scan stamped
\* before its session time
StaleUnderRoot ==
  {p \in DOMAIN meta : UnderRoot(scan.root, p) /\ meta[p].scanned_at < scan.time}

\* C30: a scan goes idle -> walking -> done; it leaves the walk only with
\* every file visited, and that step deletes from both relations exactly
\* the paths under root stamped before the session time and reports their
\* number as Deleted.
C30_ScanStagesAndPurge ==
  [][/\ scan'.pc # scan.pc =>
          \/ scan.pc = "idle" /\ scan'.pc \in {"walk", "done"}
          \/ scan.pc = "walk" /\ scan'.pc = "done"
          \/ scan.pc = "done" /\ scan'.pc = "idle"
     /\ (scan.pc = "walk" /\ scan'.pc = "done") =>
          /\ scan.todo = <<>>
          /\ scan.stage = "stat"
          /\ DOMAIN meta \ DOMAIN meta' = StaleUnderRoot
          /\ DocPathsOf(fts) \ DocPathsOf(fts') = StaleUnderRoot \cap DocPathsOf(fts)
          /\ scan'.d = Cardinality(StaleUnderRoot)]_vars

\* C39: no step of index_directory(root) changes the document or metadata
\* record of a path that is neither root nor below root at a path-separator
\* boundary, whatever characters root holds.
C39_ScanFrame ==
  [][((scan.pc = "walk" /\ scan.stage = "apply" /\ scan'.stage = "stat")
        \/ (scan.pc = "walk" /\ scan'.pc = "done")) =>
       \A p \in Files :
         ~UnderRoot(scan.root, p) =>
           /\ DocsAt(fts', p) = DocsAt(fts, p)
           /\ MetaAt(meta', p) = MetaAt(meta, p)]_vars

\* ---- the skip rule of the scan ----
\* the scan decides about the file at the head of its list
ScanDecides == scan.pc = "walk" /\ scan.stage = "stat" /\ scan'.stage = "apply"

\* the scan writes for the file it decided about
ScanWrites == scan.pc = "walk" /\ scan.stage = "apply" /\ scan'.stage = "stat"

\* C29: the scan skips a visited file exactly when its metadata record has
\* mtime >= the file's mtime.  A skip adds one to Skipped and changes
\* nothing but scanned_at of that record, which becomes the session time.
\* Otherwise a file that can be read gets both records written anew, with
\* scanned_at equal to the session time, and adds one to Indexed.
C29_SkipRule ==
  [][LET path == Head(scan.todo) IN
     /\ ScanDecides =>
          (scan'.needs <=> ~(path \in DOMAIN meta /\ meta[path].mtime >= fs[path].mtime))
     /\ (ScanWrites /\ ~scan.needs) =>
          /\ scan'.s = scan.s + 1
          /\ scan'.u = scan.u
          /\ fts' = fts
          /\ DOMAIN meta' = DOMAIN meta
          /\ \A p \in DOMAIN meta :
               meta'[p] = IF p = path THEN [meta[p] EXCEPT !.scanned_at = scan.time]
                          ELSE meta[p]
     /\ (ScanWrites /\ scan.needs /\ Exists(path) /\ Decodable(fs[path].data)) =>
          /\ scan'.u = scan.u + 1
          /\ scan'.s = scan.s
          /\ DocsAt(fts', path) = SetToBag({ExpectedDoc(path, fs[path].data)})
          /\ meta'[path] = ExpectedMeta(scan.fmtime, scan.time, fs[path].data)
          /\ \A p \in DOMAIN meta \ {path} : p \in DOMAIN meta' /\ meta'[p] = meta[p]]_vars

\* a scan has skipped the file it found unchanged and stamped its record
C29_Witness ==
  /\ scan.pc = "done"
  /\ scan.s = 1
  /\ scan.u = 0
  /\ \E f \in Files :
       /\ f \in DOMAIN meta
       /\ Exists(f)
       /\ meta[f].mtime >= fs[f].mtime
       /\ meta[f].scanned_at = scan.time

\* ---- stored mtime against stored content ----
\* the single-file update writes its metadata record
UpdStores == upd.pc = "stat" /\ upd'.pc = "done" /\ upd'.result = "Updated"

\* C36: whenever the single-file update or the scan writes a metadata
\* record, the mtime it stores is not later than the modification time of
\* the file version whose content it stored.
C36_MtimeNotAheadOfContent ==
  [][/\ UpdStores => meta'[upd.path].mtime <= upd.rmtime
     /\ (/\ ScanWrites
         /\ scan.needs
         /\ Exists(Head(scan.todo))
         /\ Decodable(fs[Head(scan.todo)].data))
          => meta'[Head(scan.todo)].mtime <= fs[Head(scan.todo)].mtime]_vars

\* ---- concurrent registration ----
\* C28: whenever a watch_directory call answers "Started watching", also with
\* another call running beside it, the root is registered and has exactly
\* one subscription on the live watcher: of two concurrent calls for one
\* root only one subscribes.
C28_OneSubscriptionPerRoot ==
  \A c \in Callers :
    LET call == wt.call[c] IN
    (call.pc = "done" /\ call.result = "Started") =>
      /\ call.root \in wt.watched
      /\ is_alive(wt.insts[wt.observer])
      /\ CountIn(wt.insts[wt.observer].handlers, call.root) = 1

\* ---- the events of a watched root ----
\* a directory event, or a create/modify/delete event whose path matches the
\* ignore rules the handler holds
Dropped(event) ==
  \/ event.is_directory
  \/ /\ event.type \in {"created", "modified", "deleted"}
     /\ ev.ignore_spec
     /\ MatchesIgnore(event.src)

\* C31: for a directory event and for a create/modify/delete event whose
\* path matches the ignore rules of the handler, _update_or_remove_file is
\* not invoked and both relations stay as they are.
C31_IgnoredEventsDropped ==
  [][/\ (ev.k > 0 /\ Dropped(ev.event)) =>
          /\ upd'.pc = "idle"
          /\ fts' = fts
          /\ meta' = meta
     /\ (ev.k = 0 /\ ev'.k = 0 /\ Len(ev'.handled) > Len(ev.handled)) =>
          /\ Dropped(ev'.handled[Len(ev'.handled)].event)
          /\ upd' = upd
          /\ fts' = fts
          /\ meta' = meta
     /\ \A i \in 1..Len(ev'.handled) :
          Dropped(ev'.handled[i].event) => ev'.handled[i].invoked = <<>>]_vars

\* the handler is through with a directory event and with the creation of
\* a file that its ignore rules match
C31_Witness ==
  /\ ev.ignore_spec
  /\ \E i, j \in 1..Len(ev.handled) :
       /\ ev.handled[i].event.is_directory
       /\ ev.handled[j].event.type = "created"
       /\ MatchesIgnore(ev.handled[j].event.src)
       /\ ev.handled[j].invoked = <<>>
  /\ fts = EmptyBag
  /\ meta = EmptyMeta

\* the handler is through with a move event of a file
MoveHandled ==
  /\ ev.k > 0
  /\ ev.event.type = "moved"
  /\ ~ev.event.is_directory
  /\ ev'.k = 0
  /\ Len(ev'.handled) = Len(ev.handled) + 1

\* the ignore rules of the handler match the path
IgnoredByHandler(path) == ev.ignore_spec /\ MatchesIgnore(path)

\* C32: when the handler is through with a move event of a file, and the
\* tree did not change since the move, _update_or_remove_file was called for
\* the source unless it is ignored and then for the destination unless it is
\* ignored; a source that was passed has no document and no metadata
\* record, a destination that was passed has the records of the moved file.
C32_MoveIsDeleteThenAdd ==
  [][MoveHandled =>
       LET h    == ev'.handled[Len(ev'.handled)]
           src  == h.event.src
           dest == h.event.dest
       IN  h.event.fresh =>
             /\ h.invoked = SelectSeq(<<src, dest>>, LAMBDA p : ~IgnoredByHandler(p))
             /\ ~IgnoredByHandler(src) =>
                  /\ DocsAt(fts', src) = EmptyBag
                  /\ src \notin DOMAIN meta'
             /\ (~IgnoredByHandler(dest) /\ Decodable(fs[dest].data)) =>
                  /\ DocsAt(fts', dest) = SetToBag({ExpectedDoc(dest, fs[dest].data)})
                  /\ dest \in DOMAIN meta'
                  /\ meta'[dest].mtime = fs[dest].mtime
                  /\ meta'[dest].token_locations =
                       PackOffsets(tokenize(ReadText(fs[dest].data)))]_vars

\* a file was created and indexed by its event, then moved to another
\* directory of the root: only the new path has records
C32_Witness ==
  /\ Len(ev.handled) = 2
  /\ ev.handled[1].event.type = "created"
  /\ ev.handled[1].invoked = <<FileX>>
  /\ ev.handled[2].event = FileEvent("moved", FileX, FileS)
  /\ ev.handled[2].invoked = <<FileX, FileS>>
  /\ DocPathsOf(fts) = {FileS}
  /\ DOMAIN meta = {FileS}

\* the events the handler is through with, the one it is at, and the ones
\* that wait, in the order of their delivery
EventsInOrder ==
  [i \in 1..Len(ev.handled) |-> ev.handled[i].event]
    \o (IF ev.k = 0 THEN <<>> ELSE <<ev.event>>)
    \o ev.queue

\* C33: the handler takes the events one at a time in the order of their
\* delivery, and no failure while an event is handled ends the Observer
\* thread: the events that wait are still going to be handled.
C33_EventsHandledInOrder ==
  [][/\ ev'.alive
     /\ \E k \in 0..1 :
          /\ Len(ev'.handled) = Len(ev.handled) + k
          /\ SubSeq(ev'.handled, 1, Len(ev.handled)) = ev.handled
     /\ LET before == [i \in 1..Len(EventsInOrder) |->
                         [EventsInOrder[i] EXCEPT !.fresh = TRUE]]
            after  == [i \in 1..Len(EventsInOrder') |->
                         [EventsInOrder'[i] EXCEPT !.fresh = TRUE]]
        IN  /\ Len(before) <= Len(after)
            /\ SubSeq(after, 1, Len(before)) = before]_vars

\* C38: no file whose name begins with "." has a document record: the
\* events of a watched root give records only to files a scan of the root
\* would index.
C38_WatchIndexesNoHiddenFile ==
  \A f \in Files : IsHidden(f) => DocsAt(fts, f) = EmptyBag

\* C37: while no watch_directory call is in progress and the current
\* Observer is alive, every root of WATCHED_PATHS has a handler scheduled on
\* it; and a call that answers "Failed to start watcher" leaves its root
\* out of WATCHED_PATHS.
C37_RegisteredRootsAreSubscribed ==
  /\ ((\A c \in Callers : ~WatchRunning(c)) /\ is_alive(wt.insts[wt.observer])) =>
        \A root \in wt.watched :
          CountIn(wt.insts[wt.observer].handlers, root) >= 1
  /\ \A c \in Callers :
        (wt.call[c].pc = "done" /\ wt.call[c].result = "Failed") =>
          wt.call[c].root \notin wt.watched

\* C1: after an undisturbed index_directory(root) the paths below root that
\* have a document record are exactly the present, non-hidden, non-ignored
\* files that are readable as UTF-8 text.
C1_ScanIndexesExactlyTheTextFiles ==
  ScanDoneQuiet => DocPathsUnder(scan.root) = Indexable(scan.root)

\* C2 as stated: the second scan of an unchanged directory reports Indexed 0,
\* Skipped = every indexable file, Deleted 0, and leaves documents and
\* metadata identical to what the first scan left.
C2_IdempotentIdentical ==
  (SecondScanDone /\ hist.removed = {}) =>
    /\ scan.u = 0
    /\ scan.d = 0
    /\ scan.s = Cardinality(Indexable(scan.root))
    /\ fts = hist.fts
    /\ meta = hist.meta

\* C2 amended: the second scan of an unchanged directory reports Indexed 0
\* and Deleted 0, counts every non-hidden, non-ignored file that has records
\* as Skipped, leaves the documents identical, and leaves the metadata
\* identical except scanned_at, which is the second scan's session time for
\* the skipped files.
C2_IdempotentButScannedAt ==
  (SecondScanDone /\ hist.removed = {}) =>
    LET skipped == Eligible(scan.root) \cap DOMAIN hist.meta IN
    /\ scan.u = 0
    /\ scan.d = 0
    /\ scan.s = Cardinality(skipped)
    /\ Indexable(scan.root) \subseteq skipped
    /\ fts = hist.fts
    /\ DOMAIN meta = DOMAIN hist.meta
    /\ \A p \in DOMAIN meta :
         /\ meta[p].mtime = hist.meta[p].mtime
         /\ meta[p].token_locations = hist.meta[p].token_locations
         /\ meta[p].scanned_at =
              IF p \in skipped THEN scan.time ELSE hist.meta[p].scanned_at

\* a second scan has skipped an indexed file
C2_Witness ==
  /\ SecondScanDone
  /\ hist.removed = {}
  /\ scan.s >= 1
  /\ scan.u = 0

\* the files below the root removed between the two scans
RemovedUnder(root_path) == {f \in hist.removed : UnderRoot(root_path, f)}

====
